---- MODULE Spec2Model ----
(***************************************************************************)
(* Conversation orchestration of caravan-of-knowledge: the two-tier chat   *)
(* memory (chat_memory.py, database.py), the tool registry dispatch        *)
(* (agent_tools.py), the agent's function-calling loop (ai_agent.py) and   *)
(* the plain completion path (gpt.py).                                     *)
(***************************************************************************)
EXTENDS Integers, Sequences, FiniteSets, TLC

(***************************************************************************)
(* Bounds of the model.                                                    *)
(***************************************************************************)
\* MAX_CHAT_HISTORY is read from the environment: values 0..MaxN are explored.
MaxN == 2
\* add_message calls made by the ChatMemory harness (SpecMem).
MaxAppends == 3
\* storage-backend calls that fail in one run.
MaxFaults == 1
\* CHAT_HISTORY_TTL is read from the environment: values 1..MaxTtl seconds.
MaxTtl == 2

\* process_message calls made in one run.
MaxTurns == 2
\* tool invocations the model requests in one turn (SpecLoop).
MaxToolCalls == 5
\* invocations of one turn that are not a well-formed get_current_date call
\* whose executor returns (SpecLoop).
MaxOddCalls == 1
\* _run_agent_loop(max_iterations=5)
max_iterations == 5

Users == {"u1", "u2"}
\* process_message calls that may be in flight at once; MainTask: the slot of a
\* caller that awaits each turn before the next
Tasks == {"t1", "t2"}
MainTask == "t1"
Texts == {"hi"}
Roles == {"user", "assistant"}
Contents == {"c1"}

VARIABLES
    startup,                \* what the constructors found: Redis answering the
                            \* ping, DATABASE_URL set, the database reachable
    max_messages_per_chat,  \* ChatMemory.max_messages_per_chat
    ttl_seconds,            \* CHAT_HISTORY_TTL
    redis_client,           \* TRUE: Redis connected; FALSE: in-memory fallback
    db_enabled,             \* Database.enabled
    use_ai_agent,           \* USE_AI_AGENT
    api_key,                \* OPENAI_API_KEY is set
    use_n8n,                \* USE_N8N and N8N_WEBHOOK_URL
    speech_enabled,         \* speech_service.enabled
    redis_store,            \* Redis: key -> [value: JSON text, ttl: seconds left]
    in_memory_storage,      \* ChatMemory._in_memory_storage: phone -> list
    db_rows,                \* table chat_messages, in insertion order
    clock,                  \* logical datetime.now(): one tick per add_message
    task,                   \* the process_message / ask_gpt calls in flight
    webhook,                \* the receive_greenapi_webhook calls in flight
    turns,                  \* process_message calls started
    faults,                 \* backend calls that have failed so far
    appended,               \* history variable: the add_message calls per user since
                            \* the user's hot-tier entry was last absent
    since,                  \* history variable: per user, the seconds since the last
                            \* setex of the user's key, counted up to ttl_seconds
    ret                     \* history variable: the last ChatMemory call and its result

cfgVars == <<startup, max_messages_per_chat, ttl_seconds, redis_client, db_enabled, use_ai_agent, api_key,
             use_n8n, speech_enabled>>
memVars == <<redis_store, in_memory_storage, db_rows, clock>>
turnVars == <<task, turns>>
vars == <<cfgVars, memVars, turnVars, webhook, faults, appended, since, ret>>

(***************************************************************************)
(* Python and JSON helpers.                                                *)
(***************************************************************************)
\* Python's s[-n:] for n >= 0: -0 is 0, so s[-0:] is the whole list.
PySliceLast(s, n) ==
    IF n = 0 \/ n >= Len(s) THEN s ELSE SubSeq(s, Len(s) - n + 1, Len(s))

\* json.dumps(history) / json.loads(text): the stored value is a JSON text.
JsonDumps(v) == <<"json", v>>
JsonLoads(t) == t[2]

\* dict without key k
DictDel(d, k) == [x \in (DOMAIN d) \ {k} |-> d[x]]
\* dict with d[k] = v
DictSet(d, k, v) == [x \in (DOMAIN d) \cup {k} |-> IF x = k THEN v ELSE d[x]]

EmptyDict == [x \in {} |-> <<>>]

\* redis_client.setex(key, ttl, value): the value is stored with a fresh TTL
\* SET with KEEPTTL: an existing key keeps the time it has left
SetExKeepTtl(store, key, ttl, value) ==
    DictSet(store, key, [value |-> value,
                         ttl |-> IF key \in DOMAIN store THEN store[key].ttl ELSE ttl])

SetEx(store, key, ttl, value) == DictSet(store, key, [value |-> value, ttl |-> ttl])

(***************************************************************************)
(* database.py                                                             *)
(***************************************************************************)
\* mutant of SaveMessage: one row per user and role, the latest replacing the
\* one before
SaveMessageUpsert(rows, enabled, phone_number, role, content, fails) ==
    IF ~enabled THEN rows
    ELSE IF fails THEN rows
    ELSE Append(SelectSeq(rows, LAMBDA r : ~(r.phone_number = phone_number /\ r.role = role)),
                [phone_number |-> phone_number, role |-> role, content |-> content])

\* Database.save_message: one row appended, unless disabled or the commit fails.
SaveMessage(rows, enabled, phone_number, role, content, fails) ==
    IF ~enabled THEN rows
    ELSE IF fails THEN rows
    ELSE Append(rows, [phone_number |-> phone_number, role |-> role, content |-> content])

\* Database.get_chat_history: the user's rows, oldest first.
DbGetChatHistory(rows, enabled, phone_number) ==
    IF ~enabled THEN <<>>
    ELSE SelectSeq(rows, LAMBDA r : r.phone_number = phone_number)

(***************************************************************************)
(* chat_memory.py: the operations as functions of the store                *)
(* m = [redis, mem, rows, clock].                                          *)
(***************************************************************************)
\* mutant of GetChatKey: one key for every user
GetChatKeyShared(phone_number) == <<"chat_history:", "all">>

\* ChatMemory._get_chat_key
GetChatKey(phone_number) == <<"chat_history:", phone_number>>

Message(role, content, ts) == [role |-> role, content |-> content, timestamp |-> ts]

\* mutant of GetChatHistory: a miss or a failure of the hot tier is answered
\* from the durable log
GetChatHistoryDbFallback(m, phone_number, getFails) ==
    LET rows == DbGetChatHistory(m.rows, db_enabled, phone_number)
        fromDb == [i \in 1..Len(rows) |->
                    Message(rows[i].role, rows[i].content, 0)]
    IN IF redis_client
       THEN IF getFails THEN fromDb
            ELSE IF GetChatKey(phone_number) \in DOMAIN m.redis
                 THEN JsonLoads(m.redis[GetChatKey(phone_number)].value)
                 ELSE fromDb
       ELSE IF phone_number \in DOMAIN m.mem THEN m.mem[phone_number] ELSE fromDb

\* ChatMemory.get_chat_history; getFails: redis.get raises (caught, []).
GetChatHistory(m, phone_number, getFails) ==
    IF redis_client
    THEN IF getFails THEN <<>>
         ELSE IF GetChatKey(phone_number) \in DOMAIN m.redis
              THEN JsonLoads(m.redis[GetChatKey(phone_number)].value)
              ELSE <<>>
    ELSE IF phone_number \in DOMAIN m.mem THEN m.mem[phone_number] ELSE <<>>

\* the trimming of add_message
\* mutant of Trim: the oldest messages are kept
TrimOldest(history) ==
    IF Len(history) > max_messages_per_chat
    THEN SubSeq(history, 1, max_messages_per_chat)
    ELSE history

Trim(history) ==
    IF Len(history) > max_messages_per_chat
    THEN PySliceLast(history, max_messages_per_chat)
    ELSE history

\* mutant of AddMessage: the durable write comes first and its failure leaves
\* the call before the hot tier is written
AddMessageDurableFirst(m, phone_number, role, content, f) ==
    LET message == Message(role, content, m.clock)
        ticked == [m EXCEPT !.clock = @ + 1]
        durable(s) == [s EXCEPT !.rows =
                          SaveMessage(@, db_enabled, phone_number, role, content, f.save)]
    IN IF db_enabled /\ f.save THEN ticked
       ELSE IF redis_client
       THEN LET history == Append(GetChatHistory(m, phone_number, f.get), message)
            IN IF f.setex
               THEN ticked
               ELSE durable([ticked EXCEPT !.redis =
                        SetEx(@, GetChatKey(phone_number), ttl_seconds,
                                    JsonDumps(Trim(history)))])
       ELSE LET history == Append(IF phone_number \in DOMAIN m.mem
                                  THEN m.mem[phone_number] ELSE <<>>, message)
            IN durable([ticked EXCEPT !.mem = DictSet(@, phone_number, Trim(history))])

\* ChatMemory.add_message; f = [get, setex, save]: which backend calls raise.
\* mutant of AddMessage: the in-process store is not trimmed
AddMessageMemUntrimmed(m, phone_number, role, content, f) ==
    LET message == Message(role, content, m.clock)
        ticked == [m EXCEPT !.clock = @ + 1]
        durable(s) == [s EXCEPT !.rows =
                          SaveMessage(@, db_enabled, phone_number, role, content, f.save)]
    IN IF redis_client
       THEN LET history == Append(GetChatHistory(m, phone_number, f.get), message)
            IN IF f.setex
               THEN ticked
               ELSE durable([ticked EXCEPT !.redis =
                        SetEx(@, GetChatKey(phone_number), ttl_seconds,
                                    JsonDumps(Trim(history)))])
       ELSE LET history == Append(IF phone_number \in DOMAIN m.mem
                                  THEN m.mem[phone_number] ELSE <<>>, message)
            IN durable([ticked EXCEPT !.mem = DictSet(@, phone_number, history)])

AddMessage(m, phone_number, role, content, f) ==
    LET message == Message(role, content, m.clock)
        ticked == [m EXCEPT !.clock = @ + 1]
        durable(s) == [s EXCEPT !.rows =
                          SaveMessage(@, db_enabled, phone_number, role, content, f.save)]
    IN IF redis_client
       THEN LET history == Append(GetChatHistory(m, phone_number, f.get), message)
            IN IF f.setex
               THEN ticked     \* setex raised: caught by the outer except, nothing stored
               ELSE durable([ticked EXCEPT !.redis =
                        SetEx(@, GetChatKey(phone_number), ttl_seconds,
                                    JsonDumps(Trim(history)))])
       ELSE LET history == Append(IF phone_number \in DOMAIN m.mem
                                  THEN m.mem[phone_number] ELSE <<>>, message)
            IN durable([ticked EXCEPT !.mem = DictSet(@, phone_number, Trim(history))])

\* ChatMemory.get_messages_for_gpt: role and content only.
GetMessagesForGpt(m, phone_number, getFails) ==
    LET history == GetChatHistory(m, phone_number, getFails)
    IN [i \in 1..Len(history) |->
            [role |-> history[i].role, content |-> history[i].content]]

\* mutant of IsFirstMessage: first contact decided by the durable log
IsFirstMessageFromDb(m, phone_number, getFails) ==
    Len(DbGetChatHistory(m.rows, db_enabled, phone_number)) = 0

\* ChatMemory.is_first_message
IsFirstMessage(m, phone_number, getFails) ==
    Len(GetChatHistory(m, phone_number, getFails)) = 0

\* ChatMemory.get_full_history_from_db: the durable rows of the user, and the
\* hot-tier history when the database is not enabled
GetFullHistoryFromDb(m, phone_number, getFails) ==
    IF db_enabled
    THEN DbGetChatHistory(m.rows, db_enabled, phone_number)
    ELSE GetChatHistory(m, phone_number, getFails)

\* mutant of ClearChatHistory: the user's durable rows are deleted as well
ClearChatHistoryAlsoDb(m, phone_number, delFails) ==
    LET kept == SelectSeq(m.rows, LAMBDA r : r.phone_number # phone_number)
    IN IF redis_client
       THEN IF delFails THEN m
            ELSE [m EXCEPT !.redis = DictDel(@, GetChatKey(phone_number)), !.rows = kept]
       ELSE [m EXCEPT !.mem = DictDel(@, phone_number), !.rows = kept]

\* ChatMemory.clear_chat_history; delFails: redis.delete raises (caught).
ClearChatHistory(m, phone_number, delFails) ==
    IF redis_client
    THEN IF delFails THEN m
         ELSE [m EXCEPT !.redis = DictDel(@, GetChatKey(phone_number))]
    ELSE [m EXCEPT !.mem = DictDel(@, phone_number)]

(***************************************************************************)
(* The constructors.                                                       *)
(***************************************************************************)
Startups == [redis : BOOLEAN, database_url : BOOLEAN, database : BOOLEAN]

\* ChatMemory.__init__: a failed connection or ping is caught and leaves the
\* in-memory dict in place of the client; ok: the constructor returns
ChatMemoryInit(env) == [ok |-> TRUE, redis_client |-> env.redis]

\* mutant of DatabaseInit: no try/except around create_engine and create_all
DatabaseInitNoTry(env) ==
    IF ~env.database_url THEN [ok |-> TRUE, enabled |-> FALSE]
    ELSE [ok |-> env.database, enabled |-> env.database]

\* Database.__init__: disabled without DATABASE_URL, and when create_engine or
\* create_all raises (caught); ok: the constructor returns
DatabaseInit(env) ==
    IF ~env.database_url THEN [ok |-> TRUE, enabled |-> FALSE]
    ELSE IF env.database THEN [ok |-> TRUE, enabled |-> TRUE]
    ELSE [ok |-> TRUE, enabled |-> FALSE]

(***************************************************************************)
(* The store as a record, and the faults a call may meet.                  *)
(***************************************************************************)
Mem == [redis |-> redis_store, mem |-> in_memory_storage, rows |-> db_rows, clock |-> clock]

SetMem(m) ==
    /\ redis_store' = m.redis
    /\ in_memory_storage' = m.mem
    /\ db_rows' = m.rows
    /\ clock' = m.clock

B2N(b) == IF b THEN 1 ELSE 0
NoFault == [get |-> FALSE, setex |-> FALSE, save |-> FALSE]
FaultCount(f) == B2N(f.get) + B2N(f.setex) + B2N(f.save)

\* fault patterns of one add_message call that the configuration allows
AddFaults(budget) ==
    {f \in [get : BOOLEAN, setex : BOOLEAN, save : BOOLEAN] :
        /\ (f.get \/ f.setex) => redis_client
        /\ f.save => (db_enabled /\ ~f.setex)
        /\ FaultCount(f) <= budget}

\* whether one backend read / delete may fail
ReadFaults(budget) == IF redis_client /\ budget > 0 THEN BOOLEAN ELSE {FALSE}

(***************************************************************************)
(* The time since the writes of a user's Redis key (history).              *)
(***************************************************************************)
\* no setex within the last ttl_seconds seconds, or the key deleted since
Never == ttl_seconds

\* one add_message for u; wrote: its setex was made and did not raise
AfterAdd(s, u, wrote) ==
    IF redis_client /\ wrote THEN [s EXCEPT ![u] = 0] ELSE s

\* one second later: ttl_seconds after its last setex a key is counted as gone
AfterSecond(s) ==
    [u \in Users |-> IF s[u] + 1 >= ttl_seconds THEN Never ELSE s[u] + 1]

(***************************************************************************)
(* Initial state: the services as constructed at import time.              *)
(***************************************************************************)
\* a task slot with no process_message call in it
IdleTask ==
    [pc |-> "idle", phone_number |-> "", user_message |-> "", is_first_message |-> FALSE,
     path |-> "", messages |-> <<>>, current_messages |-> <<>>, iteration |-> 0,
     queries |-> 0, tool_calls |-> <<>>, idx |-> 0, tool_args |-> <<>>,
     requested |-> 0, odd |-> 0, response |-> <<>>, last_tool |-> <<>>, effects |-> <<>>,
     result |-> "", outcome |-> ""]

\* a slot with no receive_greenapi_webhook call in it
IdleHook ==
    [pc |-> "idle", payload |-> <<>>, from_number |-> "", is_first |-> FALSE,
     text |-> <<>>, speech |-> <<>>, awaiting |-> "", status |-> "", sends |-> <<>>,
     n8n |-> <<>>, asked |-> 0, result |-> <<>>]

NoCall == [op |-> "none", user |-> "", role |-> "", content |-> "",
           fault |-> NoFault, result |-> <<>>]

\* the state that the constructors leave, for an environment env
Constructed(env) ==
    /\ startup = env
    /\ redis_client = ChatMemoryInit(env).redis_client
    /\ db_enabled = DatabaseInit(env).enabled
    /\ redis_store = EmptyDict
    /\ in_memory_storage = EmptyDict
    /\ db_rows = <<>>

\* DATABASE_URL is set here; without it the database is disabled as it is when
\* it cannot be reached (InitStart draws that case too)
InitStore ==
    /\ max_messages_per_chat \in 0..MaxN
    /\ ttl_seconds \in 1..MaxTtl
    /\ \E env \in {e \in Startups : e.database_url} : Constructed(env)
    /\ use_ai_agent \in BOOLEAN
    /\ api_key \in BOOLEAN
    /\ use_n8n = FALSE
    /\ speech_enabled = FALSE
    /\ task = [t \in Tasks |-> IdleTask]
    /\ webhook = [t \in Tasks |-> IdleHook]
    /\ turns = 0
    /\ clock = 0
    /\ faults = 0
    /\ appended = [u \in Users |-> <<>>]
    /\ since = [u \in Users |-> Never]
    /\ ret = NoCall

(***************************************************************************)
(* ChatMemory called directly (SpecMem).                                   *)
(***************************************************************************)
CallAddMessage(u, role, content) ==
    /\ clock < MaxAppends
    /\ \E f \in AddFaults(MaxFaults - faults) :
        /\ SetMem(AddMessage(Mem, u, role, content, f))
        /\ faults' = faults + FaultCount(f)
        /\ appended' = [appended EXCEPT ![u] = Append(@, Message(role, content, clock))]
        /\ since' = AfterAdd(since, u, ~f.setex)
        /\ ret' = [op |-> "add_message", user |-> u, role |-> role, content |-> content,
                   fault |-> f, result |-> <<>>]
    /\ UNCHANGED <<cfgVars, webhook, turnVars>>

CallGetChatHistory(u) ==
    /\ \E g \in ReadFaults(MaxFaults - faults) :
        /\ faults' = faults + B2N(g)
        /\ ret' = [op |-> "get_chat_history", user |-> u, role |-> "", content |-> "",
                   fault |-> [NoFault EXCEPT !.get = g],
                   result |-> GetChatHistory(Mem, u, g)]
    /\ UNCHANGED <<cfgVars, webhook, memVars, turnVars, appended, since>>

CallIsFirstMessage(u) ==
    /\ \E g \in ReadFaults(MaxFaults - faults) :
        /\ faults' = faults + B2N(g)
        /\ ret' = [op |-> "is_first_message", user |-> u, role |-> "", content |-> "",
                   fault |-> [NoFault EXCEPT !.get = g],
                   result |-> IsFirstMessage(Mem, u, g)]
    /\ UNCHANGED <<cfgVars, webhook, memVars, turnVars, appended, since>>

CallGetMessagesForGpt(u) ==
    /\ \E g \in ReadFaults(MaxFaults - faults) :
        /\ faults' = faults + B2N(g)
        /\ ret' = [op |-> "get_messages_for_gpt", user |-> u, role |-> "", content |-> "",
                   fault |-> [NoFault EXCEPT !.get = g],
                   result |-> GetMessagesForGpt(Mem, u, g)]
    /\ UNCHANGED <<cfgVars, webhook, memVars, turnVars, appended, since>>

CallGetFullHistoryFromDb(u) ==
    /\ \E g \in (IF db_enabled THEN {FALSE} ELSE ReadFaults(MaxFaults - faults)) :
        /\ faults' = faults + B2N(g)
        /\ ret' = [op |-> "get_full_history_from_db", user |-> u, role |-> "",
                   content |-> "", fault |-> [NoFault EXCEPT !.get = g],
                   result |-> GetFullHistoryFromDb(Mem, u, g)]
    /\ UNCHANGED <<cfgVars, webhook, memVars, turnVars, appended, since>>

CallClearChatHistory(u) ==
    /\ \E g \in ReadFaults(MaxFaults - faults) :
        /\ SetMem(ClearChatHistory(Mem, u, g))
        /\ appended' = [appended EXCEPT ![u] = IF g THEN @ ELSE <<>>]
        /\ since' = IF redis_client /\ ~g THEN [since EXCEPT ![u] = Never] ELSE since
        /\ faults' = faults + B2N(g)
        /\ ret' = [op |-> "clear_chat_history", user |-> u, role |-> "", content |-> "",
                   fault |-> [NoFault EXCEPT !.get = g], result |-> <<>>]
    /\ UNCHANGED <<cfgVars, webhook, turnVars>>

\* One second passes: Redis drops every key whose TTL has elapsed; the
\* in-memory fallback keeps no TTL.
Tick ==
    /\ redis_store' = [k \in {x \in DOMAIN redis_store : redis_store[x].ttl > 1} |->
                            [redis_store[k] EXCEPT !.ttl = @ - 1]]
    /\ appended' = [u \in Users |->
                        IF /\ GetChatKey(u) \in DOMAIN redis_store
                           /\ redis_store[GetChatKey(u)].ttl = 1
                        THEN <<>> ELSE appended[u]]
    /\ since' = IF redis_client THEN AfterSecond(since) ELSE since
    /\ ret' = [NoCall EXCEPT !.op = "tick"]
    /\ UNCHANGED <<cfgVars, webhook, turnVars, in_memory_storage, db_rows, clock, faults>>

\* the reads of ChatMemory; a caller makes use of a result before reading again
ReadOps == {"get_chat_history", "is_first_message", "get_full_history_from_db"}

NextMem ==
    \/ \E u \in Users, role \in Roles, content \in Contents : CallAddMessage(u, role, content)
    \/ \E u \in Users : ret.op \notin ReadOps /\ CallGetChatHistory(u)
    \/ \E u \in Users : ret.op \notin ReadOps /\ CallIsFirstMessage(u)
    \/ \E u \in Users : ret.op \notin ReadOps /\ CallGetFullHistoryFromDb(u)
    \/ \E u \in Users : CallClearChatHistory(u)
    \/ Tick

\* every configuration of the store, with a TTL of one second
InitMem ==
    /\ InitStore
    /\ ttl_seconds = 1
    /\ use_ai_agent
    /\ api_key

SpecMem == InitMem /\ [][NextMem]_vars

\* ChatMemory called directly after construction in every environment
InitStart ==
    /\ max_messages_per_chat = MaxN
    /\ ttl_seconds = 1
    /\ \E env \in Startups : Constructed(env)
    /\ use_ai_agent = TRUE
    /\ api_key = TRUE
    /\ use_n8n = FALSE
    /\ speech_enabled = FALSE
    /\ task = [t \in Tasks |-> IdleTask]
    /\ webhook = [t \in Tasks |-> IdleHook]
    /\ turns = 0
    /\ clock = 0
    /\ faults = 0
    /\ appended = [u \in Users |-> <<>>]
    /\ since = [u \in Users |-> Never]
    /\ ret = NoCall

SpecStart == InitStart /\ [][NextMem]_vars

\* appends and reads while time passes, for every TTL
NextTtl ==
    \/ \E u \in Users, role \in Roles, content \in Contents : CallAddMessage(u, role, content)
    \/ \E u \in Users : CallGetChatHistory(u)
    \/ \E u \in Users : CallIsFirstMessage(u)
    \/ Tick

InitTtl ==
    /\ InitStore
    /\ max_messages_per_chat = MaxN
    /\ db_enabled
    /\ use_ai_agent
    /\ api_key

SpecTtl == InitTtl /\ [][NextTtl]_vars

\* the same with every read of the hot tier, the appended messages all alike
NextFresh ==
    \/ \E u \in Users : CallAddMessage(u, "user", "c1")
    \/ \E u \in Users : CallGetChatHistory(u)
    \/ \E u \in Users : CallIsFirstMessage(u)
    \/ \E u \in Users : CallGetMessagesForGpt(u)
    \/ Tick

SpecFresh == InitTtl /\ [][NextFresh]_vars

\* the calls of ChatMemory in both modes of the hot tier, for every N: no
\* second passes and no call of a back end fails
NextModes ==
    \/ \E u \in Users, role \in Roles, content \in Contents :
            faults' = faults /\ CallAddMessage(u, role, content)
    \/ \E u \in Users : faults' = faults /\ CallGetChatHistory(u)
    \/ \E u \in Users : faults' = faults /\ CallIsFirstMessage(u)
    \/ \E u \in Users : faults' = faults /\ CallClearChatHistory(u)

SpecModes == InitMem /\ [][NextModes]_vars

(***************************************************************************)
(* agent_tools.py: the tool registry.                                      *)
(***************************************************************************)
TOOL_FUNCTIONS == {"search_knowledge_base", "register_student", "notify_manager",
                   "get_current_date"}

\* mutant of ExecuteTool: no try/except around the executor
ExecuteToolNoTry(tool_name, tool_args, behaviour) ==
    IF tool_name \notin TOOL_FUNCTIONS
    THEN [result |-> [success |-> FALSE, error |-> <<"Unknown tool: ", tool_name>>],
          invoked |-> <<>>, raised |-> FALSE]
    ELSE IF behaviour = "raises"
         THEN [result |-> [success |-> FALSE, error |-> <<"str(e)">>],
               invoked |-> <<[executor |-> tool_name, args |-> tool_args]>>,
               raised |-> TRUE]
         ELSE [result |-> [success |-> TRUE, error |-> <<>>],
               invoked |-> <<[executor |-> tool_name, args |-> tool_args]>>,
               raised |-> FALSE]

\* mutant of ExecuteTool: the catalog is indexed without the membership test
\* and outside the try, so an unknown name raises KeyError
ExecuteToolUnknownRaises(tool_name, tool_args, behaviour) ==
    IF tool_name \notin TOOL_FUNCTIONS
    THEN [result |-> [success |-> FALSE, error |-> <<"KeyError: ", tool_name>>],
          invoked |-> <<>>, raised |-> TRUE]
    ELSE IF behaviour = "raises"
         THEN [result |-> [success |-> FALSE, error |-> <<"str(e)">>],
               invoked |-> <<[executor |-> tool_name, args |-> tool_args]>>,
               raised |-> FALSE]
         ELSE [result |-> [success |-> TRUE, error |-> <<>>],
               invoked |-> <<[executor |-> tool_name, args |-> tool_args]>>,
               raised |-> FALSE]

\* execute_tool(tool_name, tool_args); behaviour: what the executor does when it
\* is awaited ("returns" a result of its own, or "raises").
\* invoked: the executor calls made; raised: whether execute_tool itself raises.
ExecuteTool(tool_name, tool_args, behaviour) ==
    IF tool_name \notin TOOL_FUNCTIONS
    THEN [result |-> [success |-> FALSE, error |-> <<"Unknown tool: ", tool_name>>],
          invoked |-> <<>>, raised |-> FALSE]
    ELSE IF behaviour = "raises"
         THEN [result |-> [success |-> FALSE, error |-> <<"str(e)">>],
               invoked |-> <<[executor |-> tool_name, args |-> tool_args]>>,
               raised |-> FALSE]
         ELSE [result |-> [success |-> TRUE, error |-> <<>>],
               invoked |-> <<[executor |-> tool_name, args |-> tool_args]>>,
               raised |-> FALSE]

(***************************************************************************)
(* The completion API's answers.                                           *)
(***************************************************************************)
\* tool_call["function"]["arguments"] is a JSON text; json.loads raises on BadJson.
BadJson == <<"text", "{bad">>
JsonValid(t) == t[1] = "json"

ArgsEmpty == JsonDumps(EmptyDict)
ArgsMessage == JsonDumps([k \in {"message"} |-> "m"])
ArgsPhone == JsonDumps([k \in {"message", "user_phone"} |-> IF k = "message" THEN "m" ELSE "p9"])

PlainCall == [name |-> "get_current_date", arguments |-> ArgsEmpty]
BadCall == [name |-> "get_current_date", arguments |-> BadJson]
OddCalls == {[name |-> "notify_manager", arguments |-> ArgsMessage],
             [name |-> "notify_manager", arguments |-> ArgsPhone],
             [name |-> "no_such_tool", arguments |-> ArgsEmpty],
             BadCall}

\* the lists of k requested calls with at most `odd` calls out of OddCalls
RECURSIVE CallLists(_, _)
CallLists(k, odd) ==
    IF k = 0 THEN {<<>>}
    ELSE {Append(s, PlainCall) : s \in CallLists(k - 1, odd)}
         \cup (IF odd > 0
               THEN {Append(s, c) : s \in CallLists(k - 1, odd - 1), c \in OddCalls}
               ELSE {})

\* the model gives every requested call an id
WithIds(calls, iteration) ==
    [i \in DOMAIN calls |->
        [id |-> <<"call", iteration, i>>, name |-> calls[i].name,
         arguments |-> calls[i].arguments]]

FinalResponse == [kind |-> "ok", status |-> 200, content |-> "a1", tool_calls |-> <<>>]
ErrorResponse == [kind |-> "ok", status |-> 500, content |-> "", tool_calls |-> <<>>]
RaisedResponse == [kind |-> "raise", status |-> 0, content |-> "", tool_calls |-> <<>>]
ToolResponse(calls) == [kind |-> "ok", status |-> 200, content |-> "partial", tool_calls |-> calls]

\* answers with at most one tool call: get_current_date, well-formed or not
PlainResponses(tk) ==
    {FinalResponse, ErrorResponse, RaisedResponse,
     ToolResponse(WithIds(<<PlainCall>>, tk.iteration)),
     ToolResponse(WithIds(<<BadCall>>, tk.iteration))}

\* answers with any number of calls, within the bounds
RichResponses(tk) ==
    {FinalResponse, ErrorResponse, RaisedResponse}
    \cup {ToolResponse(WithIds(s, tk.iteration)) :
            s \in UNION {CallLists(k, MaxOddCalls - tk.odd) :
                            k \in 1..(MaxToolCalls - tk.requested)}}

(***************************************************************************)
(* ai_agent.py and gpt.py: one process_message call.                       *)
(***************************************************************************)
\* the texts are kept by their meaning (the source strings are Russian)
ExhaustedText == "processing takes longer than expected, please refine the question"
UnavailableText == "sorry, the service is temporarily unavailable"
ApologyText == "sorry, a processing error occurred, try later"
KeyErrorText == "error: OPEN_AI_KEY or OPENAI_API_KEY is not set"
GptErrorText == "OpenAI API error: status and body"

\* AIAgent.enabled
AgentEnabled == use_ai_agent /\ api_key

\* google_docs_service.get_prompt_from_docs(is_first_message)
SystemPrompt(is_first_message) == <<"prompt", is_first_message>>

\* system prompt, history, current user message
BuildMessages(system_content, chat_history, user_message) ==
    <<[role |-> "system", content |-> system_content]>>
    \o chat_history
    \o <<[role |-> "user", content |-> user_message]>>

\* mutant of SaveExchange: the assistant message is saved before the user message
SaveExchangeReversed(phone_number, user_message, response) ==
    \E f1 \in AddFaults(MaxFaults - faults) :
      \E f2 \in AddFaults(MaxFaults - faults - FaultCount(f1)) :
        /\ SetMem(AddMessage(AddMessage(Mem, phone_number, "assistant", response, f1),
                             phone_number, "user", user_message, f2))
        /\ faults' = faults + FaultCount(f1) + FaultCount(f2)
        /\ appended' = [appended EXCEPT ![phone_number] =
                            @ \o <<Message("assistant", response, clock),
                                   Message("user", user_message, clock + 1)>>]
        /\ since' = AfterAdd(AfterAdd(since, phone_number, ~f1.setex),
                             phone_number, ~f2.setex)

\* mutant of SaveExchange: the second add_message works on the hot tier as it
\* was read before the first one
SaveExchangeStaleRead(phone_number, user_message, response) ==
    LET m1 == AddMessage(Mem, phone_number, "user", user_message, NoFault)
        stale == [m1 EXCEPT !.redis = redis_store, !.mem = in_memory_storage]
        m2 == AddMessage(stale, phone_number, "assistant", response, NoFault)
    IN /\ SetMem(m2)
       /\ faults' = faults
       /\ appended' = [appended EXCEPT ![phone_number] =
                            @ \o <<Message("user", user_message, clock),
                                   Message("assistant", response, clock + 1)>>]
       /\ since' = AfterAdd(since, phone_number, TRUE)

\* the two add_message calls that record the exchange
SaveExchange(phone_number, user_message, response) ==
    \E f1 \in AddFaults(MaxFaults - faults) :
      \E f2 \in AddFaults(MaxFaults - faults - FaultCount(f1)) :
        /\ SetMem(AddMessage(AddMessage(Mem, phone_number, "user", user_message, f1),
                             phone_number, "assistant", response, f2))
        /\ faults' = faults + FaultCount(f1) + FaultCount(f2)
        /\ appended' = [appended EXCEPT ![phone_number] =
                            @ \o <<Message("user", user_message, clock),
                                   Message("assistant", response, clock + 1)>>]
        /\ since' = AfterAdd(AfterAdd(since, phone_number, ~f1.setex),
                             phone_number, ~f2.setex)

NoSave == UNCHANGED <<memVars, faults, appended, since>>

\* process_message returns `text`; recorded: whether the exchange was saved first
Returns(t, tk, text, outcome) ==
    task' = [task EXCEPT ![t] = [tk EXCEPT !.pc = "returned", !.result = text,
                                           !.outcome = outcome]]

\* mutant of OnLoopException: the except branch still records the user message
OnLoopExceptionSavesUser(t, tk) ==
    /\ task' = [task EXCEPT ![t] = [tk EXCEPT !.pc = "returned", !.result = ApologyText,
                                              !.outcome = "abandoned"]]
    /\ SetMem(AddMessage(Mem, tk.phone_number, "user", tk.user_message, NoFault))
    /\ appended' = [appended EXCEPT ![tk.phone_number] =
                        Append(@, Message("user", tk.user_message, clock))]
    /\ since' = AfterAdd(since, tk.phone_number, TRUE)
    /\ UNCHANGED faults

\* mutant of OnLoopException: the except branch undoes what the tools did
OnLoopExceptionRollsBack(t, tk) ==
    /\ Returns(t, [tk EXCEPT !.effects = <<>>], ApologyText, "abandoned")
    /\ NoSave

\* process_message's except branch: the apology is returned, nothing is saved
OnLoopException(t, tk) ==
    /\ Returns(t, tk, ApologyText, "abandoned")
    /\ NoSave

\* mutant of InjectUserPhone: the turn's phone number replaces a given user_phone
InjectUserPhoneAlways(tool_name, parsed, phone_number) ==
    IF tool_name = "notify_manager"
    THEN DictSet(parsed, "user_phone", phone_number)
    ELSE parsed

\* "user_phone" defaults to the turn's phone number, for notify_manager only
InjectUserPhone(tool_name, parsed, phone_number) ==
    IF tool_name = "notify_manager" /\ "user_phone" \notin DOMAIN parsed
    THEN DictSet(parsed, "user_phone", phone_number)
    ELSE parsed

\* mutant of OnBadStatus: the unavailable text is returned but not recorded
OnBadStatusNotSaved(t, tk) ==
    /\ task' = [task EXCEPT ![t] = [tk EXCEPT !.pc = "returned",
                    !.result = UnavailableText, !.outcome = "unavailable"]]
    /\ UNCHANGED <<memVars, faults, appended, since>>

\* a completion answer with a status other than 200: _run_agent_loop returns
\* the unavailable text, which process_message records like any answer
OnBadStatus(t, tk) ==
    /\ Returns(t, tk, UnavailableText, "unavailable")
    /\ SaveExchange(tk.phone_number, tk.user_message, UnavailableText)

\* current_messages.append(message): current_messages is a copy made on entry
\* (messages.copy()), so the caller's list keeps its elements
AppendMessage(tk, message) == [tk EXCEPT !.current_messages = Append(@, message)]

\* the for loop reaches tool_calls[i]: json.loads, the user_phone default, then
\* await execute_tool; a JSONDecodeError leaves _run_agent_loop and is caught by
\* process_message, which returns the apology without saving.
PrepareCall(t, tk, i) ==
    LET tool_call == tk.tool_calls[i]
    IN IF ~JsonValid(tool_call.arguments)
       THEN OnLoopException(t, [tk EXCEPT !.idx = i])
       ELSE LET parsed == JsonLoads(tool_call.arguments)
                tool_args == InjectUserPhone(tool_call.name, parsed, tk.phone_number)
            IN /\ task' = [task EXCEPT ![t] =
                    [tk EXCEPT !.pc = "await_tool", !.idx = i, !.tool_args = tool_args]]
               /\ NoSave

\* mutant of NextIteration: the exhaustion text is returned without being saved
NextIterationSkipsSave(t, tk) ==
    IF tk.iteration < max_iterations
    THEN /\ task' = [task EXCEPT ![t] =
                [tk EXCEPT !.pc = "await_post", !.iteration = @ + 1, !.queries = @ + 1]]
         /\ UNCHANGED <<memVars, faults, appended, since>>
    ELSE /\ task' = [task EXCEPT ![t] = [tk EXCEPT !.pc = "returned",
                        !.result = ExhaustedText, !.outcome = "exhausted"]]
         /\ UNCHANGED <<memVars, faults, appended, since>>

\* mutant of NextIteration: at the bound the content of the last answer is
\* returned and recorded
NextIterationReturnsPartial(t, tk) ==
    IF tk.iteration < max_iterations
    THEN /\ task' = [task EXCEPT ![t] =
                [tk EXCEPT !.pc = "await_post", !.iteration = @ + 1, !.queries = @ + 1]]
         /\ NoSave
    ELSE /\ Returns(t, tk, tk.response[1].content, "exhausted")
         /\ SaveExchange(tk.phone_number, tk.user_message, tk.response[1].content)

\* the while loop tests iteration < max_iterations: the next query or exhaustion
NextIteration(t, tk) ==
    IF tk.iteration < max_iterations
    THEN /\ task' = [task EXCEPT ![t] =
                [tk EXCEPT !.pc = "await_post", !.iteration = @ + 1, !.queries = @ + 1]]
         /\ NoSave
    ELSE /\ Returns(t, tk, ExhaustedText, "exhausted")
         /\ SaveExchange(tk.phone_number, tk.user_message, ExhaustedText)

\* ask_gpt up to its first await: without an API key the error text is
\* returned at once; otherwise the stack is built from the stored history
AskGpt(t, tk) ==
    IF ~api_key
    THEN /\ Returns(t, [tk EXCEPT !.path = "gpt"], KeyErrorText, "no_key")
         /\ NoSave
    ELSE \E g \in ReadFaults(MaxFaults - faults) :
          LET chat_history == GetMessagesForGpt(Mem, tk.phone_number, g)
              messages == BuildMessages(SystemPrompt(tk.is_first_message),
                                        chat_history, tk.user_message)
          IN /\ faults' = faults + B2N(g)
             /\ UNCHANGED <<memVars, appended, since>>
             /\ task' = [task EXCEPT ![t] =
                  [tk EXCEPT !.path = "gpt", !.pc = "await_gpt",
                             !.messages = messages, !.queries = 1]]

\* AIAgent.process_message up to the first await: ask_gpt when the agent is not
\* enabled, the tool loop's first query otherwise
ProcessMessage(t, phone_number, user_message, is_first_message) ==
    /\ task[t].pc = "idle"
    /\ turns < MaxTurns
    /\ turns' = turns + 1
    /\ UNCHANGED <<cfgVars, webhook, ret>>
    /\ LET tk == [IdleTask EXCEPT !.phone_number = phone_number,
                                  !.user_message = user_message,
                                  !.is_first_message = is_first_message]
       IN IF ~AgentEnabled
          THEN AskGpt(t, tk)
          ELSE \E g \in ReadFaults(MaxFaults - faults) :
                LET chat_history == GetMessagesForGpt(Mem, phone_number, g)
                    messages == BuildMessages(
                        <<SystemPrompt(is_first_message), "agent_instructions">>,
                        chat_history, user_message)
                IN /\ faults' = faults + B2N(g)
                   /\ UNCHANGED <<memVars, appended, since>>
                   /\ task' = [task EXCEPT ![t] =
                        [tk EXCEPT !.path = "agent", !.pc = "await_post",
                                   !.messages = messages,
                                   !.current_messages = messages,
                                   !.iteration = 1, !.queries = 1]]

\* _run_agent_loop: client.post returns (or raises) and the loop runs to its next await
PostReturns(t, responses) ==
    /\ task[t].pc = "await_post"
    /\ UNCHANGED <<cfgVars, webhook, turns, ret>>
    /\ \E response \in responses :
        LET tk == [task[t] EXCEPT !.response = <<response>>]
        IN IF response.kind = "raise"
           THEN OnLoopException(t, tk)
           ELSE IF response.status # 200
           THEN OnBadStatus(t, tk)
           ELSE LET assistant_message ==
                        [role |-> "assistant", content |-> response.content,
                         tool_calls |-> response.tool_calls]
                    tk2 == [AppendMessage(tk, assistant_message) EXCEPT
                        !.tool_calls = response.tool_calls,
                        !.requested = @ + Len(response.tool_calls),
                        !.odd = @ + Cardinality({i \in DOMAIN response.tool_calls :
                                    [name |-> response.tool_calls[i].name,
                                     arguments |-> response.tool_calls[i].arguments]
                                    # PlainCall})]
                IN IF Len(response.tool_calls) = 0
                   THEN /\ Returns(t, tk2, response.content, "final")
                        /\ SaveExchange(tk.phone_number, tk.user_message, response.content)
                   ELSE PrepareCall(t, tk2, 1)

\* _run_agent_loop: execute_tool returns, its result joins the messages, and the
\* loop runs to its next await
ToolReturns(t, behaviours) ==
    /\ task[t].pc = "await_tool"
    /\ UNCHANGED <<cfgVars, webhook, turns, ret>>
    /\ \E behaviour \in behaviours :
        LET tk == task[t]
            tool_call == tk.tool_calls[tk.idx]
            tool_name == tool_call.name
            odd_now == IF behaviour = "raises" /\ tool_name \in TOOL_FUNCTIONS THEN 1 ELSE 0
            run == ExecuteTool(tool_name, tk.tool_args, behaviour)
            tk2 == [AppendMessage(tk,
                    [role |-> "tool", tool_call_id |-> tool_call.id, name |-> tool_name,
                     content |-> JsonDumps(run.result)]) EXCEPT
                !.odd = @ + odd_now,
                !.effects = @ \o run.invoked,
                !.last_tool = <<[tool_name |-> tool_name, tool_args |-> tk.tool_args,
                                 arguments |-> tool_call.arguments,
                                 behaviour |-> behaviour,
                                 result |-> run.result, invoked |-> run.invoked,
                                 raised |-> run.raised]>>]
        IN /\ tk.odd + odd_now <= MaxOddCalls
           /\ IF run.raised
              THEN OnLoopException(t, tk2)
              ELSE IF tk.idx < Len(tk.tool_calls)
              THEN PrepareCall(t, tk2, tk.idx + 1)
              ELSE NextIteration(t, tk2)

\* mutant of GptAnswer: the error text of a status other than 200 is recorded
GptAnswerSavesError(t, response) ==
    LET tk == [task[t] EXCEPT !.response = <<response>>]
    IN IF response.kind = "raise"
       THEN /\ task' = [task EXCEPT ![t] = [tk EXCEPT !.pc = "raised",
                                                      !.outcome = "raised"]]
            /\ NoSave
       ELSE IF response.status = 200
       THEN /\ Returns(t, tk, response.content, "final")
            /\ SaveExchange(tk.phone_number, tk.user_message, response.content)
       ELSE /\ Returns(t, tk, GptErrorText, "gpt_error")
            /\ SaveExchange(tk.phone_number, tk.user_message, GptErrorText)

\* ask_gpt after client.post: status 200 records the exchange and returns the
\* answer, any other status returns an error text; an exception of the call
\* leaves ask_gpt
GptAnswer(t, response) ==
    LET tk == [task[t] EXCEPT !.response = <<response>>]
    IN IF response.kind = "raise"
       THEN /\ task' = [task EXCEPT ![t] = [tk EXCEPT !.pc = "raised",
                                                      !.outcome = "raised"]]
            /\ NoSave
       ELSE IF response.status = 200
       THEN /\ Returns(t, tk, response.content, "final")
            /\ SaveExchange(tk.phone_number, tk.user_message, response.content)
       ELSE /\ Returns(t, tk, GptErrorText, "gpt_error")
            /\ NoSave

\* ask_gpt called by process_message: client.post returns (or raises)
GptReturns(t, responses) ==
    /\ task[t].pc = "await_gpt"
    /\ UNCHANGED <<cfgVars, webhook, turns, ret>>
    /\ \E response \in responses : GptAnswer(t, response)

\* the caller takes the answer (or the exception); the slot is free again
Finish(t) ==
    /\ task[t].pc \in {"returned", "raised"}
    /\ task' = [task EXCEPT ![t] = IdleTask]
    /\ UNCHANGED <<cfgVars, webhook, memVars, turns, faults, appended, since, ret>>

(***************************************************************************)
(* webhook.py: one receive_greenapi_webhook call.                          *)
(***************************************************************************)
\* JSON values a payload may carry where the text is expected
PyNone == [type |-> "NoneType", value |-> ""]
PyInt(n) == [type |-> "int", value |-> n]
PyStr(x) == [type |-> "str", value |-> x]

\* the strings of the model that consist of whitespace only
Blank == {"", " ", "  "}

\* str.strip(): empty for a string of whitespace, and not empty otherwise
Strip(x) == IF x \in Blank THEN "" ELSE x

\* Python's truth value of v
Truthy(v) ==
    CASE v.type = "NoneType" -> FALSE
      [] v.type = "int" -> v.value # "0"
      [] v.type = "str" -> v.value # ""

\* mutant of Usable: the text is not stripped before the test
UsableNoStrip(text) == Truthy(text) /\ text.type = "str"

\* the test of line 144, negated: a non-empty string with more than whitespace
Usable(text) ==
    ~(~Truthy(text) \/ text.type # "str" \/ Strip(text.value) = "")

\* the fixed texts of the handler, by the status it returns with them
FallbackStatuses == {"voice_no_url", "speech_disabled", "voice_recognition_empty",
                     "voice_processing_error", "unsupported_message_type",
                     "empty_message"}
FallbackText(status) ==
    CASE status = "voice_no_url" -> "sorry, the voice message could not be handled"
      [] status = "speech_disabled" -> "sorry, voice recognition is unavailable"
      [] status = "voice_recognition_empty" -> "sorry, the voice message was not recognized"
      [] status = "voice_processing_error" -> "sorry, an error occurred on the voice message"
      [] status = "unsupported_message_type" -> "sorry, only text and voice are supported"
      [] status = "empty_message" -> "sorry, the message was not recognized"

\* f"[voice message]: {recognized_text}"
VoiceText(recognized_text) ==
    CASE recognized_text = "hi" -> "[voice message]: hi"
      [] OTHER -> "[voice message]: "

TextTypes == {"textMessage", "extendedTextMessage"}
VoiceTypes == {"voiceMessage", "audioMessage"}

\* the payloads of the model: every branch of the handler has one
TextValues == {PyNone, PyInt("5"), PyStr(""), PyStr("  "), PyStr("hi")}
Payloads ==
    {[typeWebhook |-> "outgoingMessageStatus", sender |-> <<"u1">>,
      typeMessage |-> "textMessage", text |-> PyStr("hi"), downloadUrl |-> FALSE],
     [typeWebhook |-> "incomingMessageReceived", sender |-> <<>>,
      typeMessage |-> "textMessage", text |-> PyStr("hi"), downloadUrl |-> FALSE]}
    \cup [typeWebhook : {"incomingMessageReceived"}, sender : {<<"u1">>},
          typeMessage : TextTypes, text : TextValues, downloadUrl : {FALSE}]
    \cup [typeWebhook : {"incomingMessageReceived"}, sender : {<<"u1">>},
          typeMessage : VoiceTypes, text : {PyNone}, downloadUrl : BOOLEAN]
    \cup [typeWebhook : {"incomingMessageReceived"}, sender : {<<"u1">>},
          typeMessage : {"deletedMessage", "imageMessage"}, text : {PyNone},
          downloadUrl : {FALSE}]

\* what speech_service.process_voice_message_by_url gives
SpeechOutcomes ==
    {[kind |-> "ok", text |-> PyStr("hi")], [kind |-> "ok", text |-> PyStr("  ")],
     [kind |-> "ok", text |-> PyNone], [kind |-> "raise", text |-> PyNone]}

\* what the post to the n8n webhook gives
N8nOutcomes ==
    {[kind |-> "ok", status |-> 200, response |-> "n1"],
     [kind |-> "ok", status |-> 500, response |-> ""],
     [kind |-> "raise", status |-> 0, response |-> ""]}

\* what send_whatsapp_message gives: the provider's answer, an error dict for a
\* status of 400 and above, or an exception of the request
SendOutcomes == {"sent", "error", "raises"}

\* the handler returns `result` to the web framework
HookReturns(t, h, status, http, send_result) ==
    webhook' = [webhook EXCEPT ![t] =
        [h EXCEPT !.pc = "returned",
                  !.result = <<[status |-> status, http |-> http,
                                send_result |-> send_result]>>]]

\* await send_whatsapp_message(from_number, text); awaiting: which send it is
SendMessage(t, h, awaiting, text) ==
    webhook' = [webhook EXCEPT ![t] =
        [h EXCEPT !.pc = "await_send", !.awaiting = awaiting,
                  !.sends = Append(@, [to |-> h.from_number, text |-> text])]]

\* a fixed text is sent and the handler returns with `status` after it
SendFallback(t, h, status) ==
    /\ SendMessage(t, [h EXCEPT !.status = status], "fallback", FallbackText(status))
    /\ task' = task
    /\ NoSave

\* await ask_gpt(text, from_number, is_first_message=is_first), up to its first
\* await; the error text of a missing key comes back at once and is sent
StartGpt(t, h) ==
    LET h2 == [h EXCEPT !.asked = @ + 1]
    IN /\ AskGpt(t, [IdleTask EXCEPT !.phone_number = h.from_number,
                                     !.user_message = h.text[1],
                                     !.is_first_message = h.is_first])
       /\ IF task'[t].pc = "returned"
          THEN SendMessage(t, h2, "gpt", task'[t].result)
          ELSE webhook' = [webhook EXCEPT ![t] = [h2 EXCEPT !.pc = "await_gpt"]]

\* the text goes to n8n when that is configured (send_to_n8n up to its post),
\* and to ask_gpt otherwise
Dispatch(t, h) ==
    IF use_n8n
    THEN /\ webhook' = [webhook EXCEPT ![t] =
                [h EXCEPT !.pc = "await_n8n",
                          !.n8n = <<[phone |-> h.from_number, message |-> h.text[1],
                                     chat_history |->
                                        GetMessagesForGpt(Mem, h.from_number, FALSE),
                                     is_first_message |-> h.is_first]>>]]
         /\ task' = task
         /\ NoSave
    ELSE StartGpt(t, h)

\* the test of the extracted text, and what follows it
AfterExtract(t, h, text) ==
    IF ~Usable(text)
    THEN SendFallback(t, h, "empty_message")
    ELSE Dispatch(t, [h EXCEPT !.text = <<text.value>>])

\* receive_greenapi_webhook(payload) up to its first await
ReceiveWebhook(t, payload) ==
    /\ webhook[t].pc = "idle"
    /\ task[t].pc = "idle"
    /\ turns < MaxTurns
    /\ turns' = turns + 1
    /\ UNCHANGED <<cfgVars, ret>>
    /\ LET h0 == [IdleHook EXCEPT !.payload = <<payload>>]
       IN IF payload.typeWebhook \notin {"incomingMessageReceived", "incomingMessage"}
          THEN /\ HookReturns(t, h0, "ignored", 200, <<>>)
               /\ task' = task
               /\ NoSave
          ELSE IF payload.sender = <<>>
          THEN /\ HookReturns(t, h0, "error", 200, <<>>)
               /\ task' = task
               /\ NoSave
          ELSE LET h == [h0 EXCEPT !.from_number = payload.sender[1],
                                   !.is_first =
                                        IsFirstMessage(Mem, payload.sender[1], FALSE)]
               IN IF payload.typeMessage \in TextTypes
                  THEN AfterExtract(t, h, payload.text)
                  ELSE IF payload.typeMessage \in VoiceTypes
                  THEN IF ~payload.downloadUrl
                       THEN SendFallback(t, h, "voice_no_url")
                       ELSE IF ~speech_enabled
                       THEN SendFallback(t, h, "speech_disabled")
                       ELSE /\ webhook' = [webhook EXCEPT ![t] =
                                                [h EXCEPT !.pc = "await_speech"]]
                            /\ task' = task
                            /\ NoSave
                  ELSE IF payload.typeMessage = "deletedMessage"
                  THEN /\ HookReturns(t, h, "ignored", 200, <<>>)
                       /\ task' = task
                       /\ NoSave
                  ELSE SendFallback(t, h, "unsupported_message_type")

\* process_voice_message_by_url returns (or raises)
SpeechReturns(t, outcomes) ==
    /\ webhook[t].pc = "await_speech"
    /\ UNCHANGED <<cfgVars, turns, ret>>
    /\ \E outcome \in outcomes :
        LET h == [webhook[t] EXCEPT !.speech = <<outcome>>]
            recognized_text == outcome.text
        IN IF outcome.kind = "raise"
           THEN SendFallback(t, h, "voice_processing_error")
           ELSE IF Truthy(recognized_text) /\ Strip(recognized_text.value) # ""
           THEN AfterExtract(t, h, PyStr(VoiceText(recognized_text.value)))
           ELSE SendFallback(t, h, "voice_recognition_empty")

\* send_to_n8n: the post returns (or raises); any outcome but status 200 is an
\* exception, after which the handler falls back to ask_gpt
N8nReturns(t, outcomes) ==
    /\ webhook[t].pc = "await_n8n"
    /\ UNCHANGED <<cfgVars, turns, ret>>
    /\ \E outcome \in outcomes :
        LET h == [webhook[t] EXCEPT !.n8n = Append(@, outcome)]
        IN IF outcome.kind = "ok" /\ outcome.status = 200
           THEN /\ SendMessage(t, h, "n8n", outcome.response)
                /\ task' = task
                /\ NoSave
           ELSE StartGpt(t, h)

\* ask_gpt called by the handler: client.post returns (or raises); the answer
\* is sent, an exception is answered with status 500
HookGptReturns(t, responses) ==
    /\ webhook[t].pc = "await_gpt"
    /\ task[t].pc = "await_gpt"
    /\ UNCHANGED <<cfgVars, turns, ret>>
    /\ \E response \in responses :
        /\ GptAnswer(t, response)
        /\ IF task'[t].pc = "raised"
           THEN HookReturns(t, webhook[t], "exception", 500, <<>>)
           ELSE SendMessage(t, webhook[t], "gpt", task'[t].result)

\* mutant of SendReturns: a reply that could not be delivered is taken out of
\* the history again
SendReturnsRollsBack(t, outcomes) ==
    /\ webhook[t].pc = "await_send"
    /\ UNCHANGED <<cfgVars, turns, ret>>
    /\ \E outcome \in outcomes :
        LET h0 == webhook[t]
            h == [h0 EXCEPT !.sends[Len(h0.sends)] =
                    [to |-> @.to, text |-> @.text, outcome |-> outcome]]
        IN CASE h.awaiting = "fallback" ->
                /\ IF outcome = "raises"
                   THEN HookReturns(t, h, "exception", 500, <<>>)
                   ELSE HookReturns(t, h, h.status, 200, <<>>)
                /\ task' = task
                /\ NoSave
             [] h.awaiting = "n8n" ->
                IF outcome = "raises"
                THEN StartGpt(t, h)
                ELSE /\ SaveExchange(h.from_number, h.text[1], h.sends[Len(h.sends)].text)
                     /\ HookReturns(t, h, "ok", 200, <<>>)
                     /\ task' = task
             [] h.awaiting = "gpt" ->
                /\ IF outcome = "raises"
                   THEN HookReturns(t, h, "exception", 500, <<>>)
                   ELSE HookReturns(t, h, "ok", 200, <<outcome>>)
                /\ task' = task
                /\ IF outcome = "sent"
                   THEN NoSave
                   ELSE /\ SetMem(ClearChatHistory(Mem, h.from_number, FALSE))
                        /\ UNCHANGED <<faults, appended, since>>

\* send_whatsapp_message returns (or raises)
SendReturns(t, outcomes) ==
    /\ webhook[t].pc = "await_send"
    /\ UNCHANGED <<cfgVars, turns, ret>>
    /\ \E outcome \in outcomes :
        LET h0 == webhook[t]
            h == [h0 EXCEPT !.sends[Len(h0.sends)] =
                    [to |-> @.to, text |-> @.text, outcome |-> outcome]]
        IN CASE h.awaiting = "fallback" ->
                /\ IF outcome = "raises"
                   THEN HookReturns(t, h, "exception", 500, <<>>)
                   ELSE HookReturns(t, h, h.status, 200, <<>>)
                /\ task' = task
                /\ NoSave
             [] h.awaiting = "n8n" ->
                IF outcome = "raises"
                THEN \* re-raised by send_to_n8n, caught at line 156
                     StartGpt(t, h)
                ELSE /\ SaveExchange(h.from_number, h.text[1], h.sends[Len(h.sends)].text)
                     /\ HookReturns(t, h, "ok", 200, <<>>)
                     /\ task' = task
             [] h.awaiting = "gpt" ->
                /\ IF outcome = "raises"
                   THEN HookReturns(t, h, "exception", 500, <<>>)
                   ELSE HookReturns(t, h, "ok", 200, <<outcome>>)
                /\ task' = task
                /\ NoSave

\* the web framework takes the handler's result; the slot is free again
HookFinish(t) ==
    /\ webhook[t].pc = "returned"
    /\ webhook' = [webhook EXCEPT ![t] = IdleHook]
    /\ task' = [task EXCEPT ![t] = IdleTask]
    /\ UNCHANGED <<cfgVars, memVars, turns, faults, appended, since, ret>>

(***************************************************************************)
(* Specifications.                                                         *)
(***************************************************************************)
\* turns against every configuration of the store, the model asking for at most
\* one plain tool call per answer
Init ==
    /\ InitStore
    /\ ttl_seconds = MaxTtl

Next ==
    \/ \E u \in Users, x \in Texts, b \in BOOLEAN : ProcessMessage(MainTask, u, x, b)
    \/ PostReturns(MainTask, PlainResponses(task[MainTask]))
    \/ ToolReturns(MainTask, {"returns"})
    \/ GptReturns(MainTask, {FinalResponse, ErrorResponse, RaisedResponse})
    \/ Finish(MainTask)

Spec == Init /\ [][Next]_vars

\* one agent turn, the model asking for any calls, the executors free to raise
InitLoop ==
    /\ InitStore
    /\ ttl_seconds = MaxTtl
    /\ max_messages_per_chat = MaxN
    /\ redis_client
    /\ db_enabled
    /\ use_ai_agent
    /\ api_key

NextLoop ==
    \/ \E b \in BOOLEAN : turns = 0 /\ ProcessMessage(MainTask, "u1", "hi", b)
    \/ PostReturns(MainTask, RichResponses(task[MainTask]))
    \/ ToolReturns(MainTask, {"returns", "raises"})
    \/ Finish(MainTask)

SpecLoop == InitLoop /\ [][NextLoop]_vars

\* turns in flight at the same time (the event loop runs each coroutine from
\* one await to the next), with histories cleared in between and no backend
\* call failing; every turn has a text of its own, its first-contact flag is
\* read when it starts, and the model asks for at most one tool call per turn
TurnTexts == <<"hi", "yo", "ok", "eh">>

ConcResponses(tk) ==
    {FinalResponse, RaisedResponse}
    \cup (IF tk.iteration = 1
          THEN {ToolResponse(WithIds(<<PlainCall>>, tk.iteration))}
          ELSE {})

InitConc ==
    /\ InitStore
    /\ max_messages_per_chat = MaxN
    /\ ttl_seconds = MaxTtl
    /\ use_ai_agent
    /\ api_key

NextConc ==
    \/ \E t \in Tasks, u \in Users :
            /\ faults' = faults
            /\ ProcessMessage(t, u, TurnTexts[turns + 1], IsFirstMessage(Mem, u, FALSE))
    \/ \E t \in Tasks : faults' = faults /\ PostReturns(t, ConcResponses(task[t]))
    \/ \E t \in Tasks : ToolReturns(t, {"returns"})
    \/ \E t \in Tasks : Finish(t)
    \/ \E u \in Users : faults' = faults /\ CallClearChatHistory(u)

SpecConc == InitConc /\ [][NextConc]_vars

\* turns of both users in flight (one slot for the turns of each user) while
\* histories are cleared and time passes: every operation of one user between
\* any two steps of the other
SenderOf == [t \in Tasks |-> IF t = MainTask THEN "u1" ELSE "u2"]

NextUsers ==
    \/ \E t \in Tasks :
            /\ faults' = faults
            /\ ProcessMessage(t, SenderOf[t], TurnTexts[turns + 1],
                              IsFirstMessage(Mem, SenderOf[t], FALSE))
    \/ \E t \in Tasks : faults' = faults /\ PostReturns(t, ConcResponses(task[t]))
    \/ \E t \in Tasks : ToolReturns(t, {"returns"})
    \/ \E t \in Tasks : Finish(t)
    \/ \E u \in Users : faults' = faults /\ CallClearChatHistory(u)
    \/ Tick

SpecUsers == InitConc /\ [][NextUsers]_vars

\* turns of one user in flight at the same time, on either path, with room in
\* the hot tier for every message of every turn; nothing expires, nothing is
\* cleared and no backend call fails
InitPair ==
    /\ max_messages_per_chat \in (2 * MaxTurns)..(2 * MaxTurns + 1)
    /\ ttl_seconds = MaxTtl
    /\ \E env \in {e \in Startups : e.database_url} : Constructed(env)
    /\ use_ai_agent \in BOOLEAN
    /\ api_key \in BOOLEAN
    /\ use_n8n = FALSE
    /\ speech_enabled = FALSE
    /\ task = [t \in Tasks |-> IdleTask]
    /\ webhook = [t \in Tasks |-> IdleHook]
    /\ turns = 0
    /\ clock = 0
    /\ faults = 0
    /\ appended = [u \in Users |-> <<>>]
    /\ since = [u \in Users |-> Never]
    /\ ret = NoCall

NextPair ==
    \/ \E t \in Tasks :
            /\ faults' = faults
            /\ ProcessMessage(t, "u1", TurnTexts[turns + 1], IsFirstMessage(Mem, "u1", FALSE))
    \/ \E t \in Tasks : faults' = faults /\ PostReturns(t, ConcResponses(task[t]))
    \/ \E t \in Tasks : ToolReturns(t, {"returns"})
    \/ \E t \in Tasks :
            faults' = faults /\ GptReturns(t, {FinalResponse, ErrorResponse, RaisedResponse})
    \/ \E t \in Tasks : Finish(t)

SpecPair == InitPair /\ [][NextPair]_vars

\* webhook events handled one after the other, for every setting of n8n, of
\* the speech service and of the API key, no storage backend call failing
InitHook ==
    /\ max_messages_per_chat = MaxN
    /\ ttl_seconds = MaxTtl
    /\ Constructed([redis |-> TRUE, database_url |-> TRUE, database |-> TRUE])
    /\ use_ai_agent = TRUE
    /\ api_key \in BOOLEAN
    /\ use_n8n \in BOOLEAN
    /\ speech_enabled \in BOOLEAN
    /\ task = [t \in Tasks |-> IdleTask]
    /\ webhook = [t \in Tasks |-> IdleHook]
    /\ turns = 0
    /\ clock = 0
    /\ faults = 0
    /\ appended = [u \in Users |-> <<>>]
    /\ since = [u \in Users |-> Never]
    /\ ret = NoCall

NextHook ==
    \/ \E payload \in Payloads : faults' = faults /\ ReceiveWebhook(MainTask, payload)
    \/ faults' = faults /\ SpeechReturns(MainTask, SpeechOutcomes)
    \/ faults' = faults /\ N8nReturns(MainTask, N8nOutcomes)
    \/ faults' = faults
            /\ HookGptReturns(MainTask, {FinalResponse, ErrorResponse, RaisedResponse})
    \/ faults' = faults /\ SendReturns(MainTask, SendOutcomes)
    \/ HookFinish(MainTask)

SpecHook == InitHook /\ [][NextHook]_vars

\* two events of one sender handled at the same time: a text and a voice
\* message that is transcribed, every back end answering
RacePayloads ==
    {[typeWebhook |-> "incomingMessageReceived", sender |-> <<"u1">>,
      typeMessage |-> "textMessage", text |-> PyStr("hi"), downloadUrl |-> FALSE],
     [typeWebhook |-> "incomingMessageReceived", sender |-> <<"u1">>,
      typeMessage |-> "voiceMessage", text |-> PyNone, downloadUrl |-> TRUE]}

InitRace ==
    /\ InitHook
    /\ api_key
    /\ speech_enabled

NextRace ==
    \/ \E t \in Tasks, payload \in RacePayloads :
            faults' = faults /\ ReceiveWebhook(t, payload)
    \/ \E t \in Tasks :
            faults' = faults /\ SpeechReturns(t, {[kind |-> "ok", text |-> PyStr("hi")]})
    \/ \E t \in Tasks : faults' = faults /\ N8nReturns(t, N8nOutcomes)
    \/ \E t \in Tasks : faults' = faults /\ HookGptReturns(t, {FinalResponse})
    \/ \E t \in Tasks : faults' = faults /\ SendReturns(t, {"sent"})
    \/ \E t \in Tasks : HookFinish(t)

SpecRace == InitRace /\ [][NextRace]_vars

(***************************************************************************)
(* Properties.                                                             *)
(***************************************************************************)
\* what a fault-free get_chat_history / get_messages_for_gpt returns now
HotList(u) == GetChatHistory(Mem, u, FALSE)
HotForGpt(u) == GetMessagesForGpt(Mem, u, FALSE)
DurableLog(u) == SelectSeq(db_rows, LAMBDA r : r.phone_number = u)

\* the n most recent entries of s
MostRecent(s, n) == IF Len(s) > n THEN SubSeq(s, Len(s) - n + 1, Len(s)) ELSE s

\* the answers kept in current_messages that request tools
ToolRequests(tk) ==
    Cardinality({i \in DOMAIN tk.current_messages :
        /\ tk.current_messages[i].role = "assistant"
        /\ "tool_calls" \in DOMAIN tk.current_messages[i]
        /\ Len(tk.current_messages[i].tool_calls) > 0})

InLoop(tk) == tk.pc \in {"await_post", "await_tool"}

\* C1 (as claimed): a turn makes at most max_iterations model queries, and when
\* all max_iterations answers request tools the loop returns the exhaustion
\* text as a normal return value.
C1_ExhaustionAlwaysReturned ==
    \A t \in Tasks :
        /\ task[t].queries <= max_iterations
        /\ (task[t].pc = "returned" /\ ToolRequests(task[t]) = max_iterations)
            => (task[t].outcome = "exhausted" /\ task[t].result = ExhaustedText)

\* the part of C1 that the code keeps: the query bound, and exhaustion when
\* every requested call of the last answer could be parsed
C1_QueryBound ==
    \A t \in Tasks :
        /\ task[t].queries <= max_iterations
        /\ (task[t].pc = "returned" /\ ToolRequests(task[t]) = max_iterations
            /\ task[t].outcome # "abandoned")
            => (task[t].outcome = "exhausted" /\ task[t].result = ExhaustedText)

\* C2 (as claimed): the hot-tier list of a user never holds more than
\* max_messages_per_chat messages, and it holds the most recent
\* max_messages_per_chat messages appended, in insertion order.
C2_HotTierBounded ==
    \A u \in Users :
        /\ Len(HotList(u)) <= max_messages_per_chat
        /\ faults = 0 => HotList(u) = MostRecent(appended[u], max_messages_per_chat)

\* the part of C2 that the code keeps: every positive maximum
C2_BoundedForPositiveN ==
    max_messages_per_chat >= 1 =>
        \A u \in Users :
            /\ Len(HotList(u)) <= max_messages_per_chat
            /\ faults = 0 => HotList(u) = MostRecent(appended[u], max_messages_per_chat)

\* C3: add_message followed at once by get_chat_history returns a list ending
\* with the appended role and content, whether the durable store is enabled,
\* disabled or fails on the write (the Redis write of the call having succeeded).
C3_AppendThenRead ==
    (ret.op = "add_message" /\ ~ret.fault.setex) =>
        LET h == HotList(ret.user)
        IN /\ Len(h) > 0
           /\ h[Len(h)].role = ret.role
           /\ h[Len(h)].content = ret.content

\* an add_message whose durable write failed, the hot tier holding the message
C3_Witness ==
    /\ ret.op = "add_message"
    /\ db_enabled /\ ret.fault.save
    /\ Len(HotList(ret.user)) > 0
    /\ HotList(ret.user)[Len(HotList(ret.user))].content = ret.content

\* C4: is_first_message is true for a user without hot-tier entry until the
\* first add_message, false right after any add_message (whose Redis write
\* succeeded), and always equal to "get_chat_history is empty".
C4_FirstMessage ==
    /\ \A u \in Users :
        /\ appended[u] = <<>> => IsFirstMessage(Mem, u, FALSE)
        /\ IsFirstMessage(Mem, u, FALSE) <=> (HotList(u) = <<>>)
    /\ (ret.op = "add_message" /\ ~ret.fault.setex) => ~IsFirstMessage(Mem, ret.user, FALSE)
    /\ (ret.op = "is_first_message" /\ ~ret.fault.get) =>
            (ret.result <=> (HotList(ret.user) = <<>>))

\* is_first_message was called after an add_message and answered false
C4_Witness ==
    /\ ret.op = "is_first_message"
    /\ ~ret.fault.get
    /\ ret.result = FALSE
    /\ appended[ret.user] # <<>>

\* C5: while an agent turn is in its tool loop no add_message is made: a step
\* of the turn changes the store only when it ends the loop with a final
\* text, so a turn abandoned in the loop leaves both tiers as they were.
C5_NoWriteInLoop ==
    [][\A t \in Tasks :
        (task[t].path = "agent" /\ InLoop(task[t]) /\ memVars' # memVars) =>
            /\ task'[t].pc = "returned"
            /\ task'[t].outcome \in {"final", "unavailable", "exhausted"}
            /\ clock' = clock + 2]_vars

\* a turn abandoned after a tool ran, for a user who has a history
C5_Witness ==
    \E t \in Tasks :
        /\ task[t].pc = "returned"
        /\ task[t].outcome = "abandoned"
        /\ task[t].effects # <<>>
        /\ Len(HotList(task[t].phone_number)) > 0

\* the exchange of a turn, as get_messages_for_gpt shows it
Exchange(tk) ==
    <<[role |-> "user", content |-> tk.user_message],
      [role |-> "assistant", content |-> tk.result]>>

ExchangeRows(tk) ==
    <<[phone_number |-> tk.phone_number, role |-> "user", content |-> tk.user_message],
      [phone_number |-> tk.phone_number, role |-> "assistant", content |-> tk.result]>>

\* C6 (as claimed): after a turn that ends with a final answer, a user whose
\* history was empty has exactly the two messages (user, input), (assistant,
\* final) in the hot-tier history.
C6_ExactlyTwoMessages ==
    \A t \in Tasks :
        (/\ task[t].pc = "returned" /\ task[t].outcome = "final"
         /\ faults = 0
         /\ Len(appended[task[t].phone_number]) = 2)
        => HotForGpt(task[t].phone_number) = Exchange(task[t])

\* C6 (amended): a turn that ends with a final answer appends (user, input)
\* and then (assistant, final): the durable log gains these two rows, the
\* hot-tier list ends with them when the maximum is at least 2 (and is exactly
\* them for a user whose history was empty); a maximum of 1 keeps the
\* assistant message alone.
C6_TwoMessagesAppended ==
    \A t \in Tasks :
        (task[t].pc = "returned" /\ task[t].outcome = "final" /\ faults = 0) =>
            LET u == task[t].phone_number
                h == HotForGpt(u)
                d == DurableLog(u)
            IN /\ max_messages_per_chat >= 2 =>
                    /\ Len(h) >= 2
                    /\ SubSeq(h, Len(h) - 1, Len(h)) = Exchange(task[t])
                    /\ Len(appended[u]) = 2 => h = Exchange(task[t])
               /\ max_messages_per_chat = 1 => h = <<Exchange(task[t])[2]>>
               /\ db_enabled =>
                    /\ Len(d) = Len(appended[u])
                    /\ SubSeq(d, Len(d) - 1, Len(d)) = ExchangeRows(task[t])

\* the first exchange of a user, recorded whole
C6_Witness ==
    \E t \in Tasks :
        /\ task[t].pc = "returned" /\ task[t].outcome = "final"
        /\ faults = 0
        /\ max_messages_per_chat >= 2
        /\ HotForGpt(task[t].phone_number) = Exchange(task[t])

\* C7: a loop that ends exhausted has its fixed text recorded as the turn's
\* assistant message, and both tiers only ever hold messages of role user or
\* assistant, without tool calls.
C7_ExhaustedRecorded ==
    /\ \A t \in Tasks :
        (task[t].pc = "returned" /\ task[t].outcome = "exhausted" /\ faults = 0) =>
            LET u == task[t].phone_number
                h == HotForGpt(u)
                d == DurableLog(u)
            IN /\ task[t].result = ExhaustedText
               /\ Len(h) >= 1
               /\ h[Len(h)] = [role |-> "assistant", content |-> ExhaustedText]
               /\ max_messages_per_chat # 1 =>
                    /\ Len(h) >= 2
                    /\ h[Len(h) - 1] = [role |-> "user", content |-> task[t].user_message]
               /\ db_enabled =>
                    /\ Len(d) >= 2
                    /\ SubSeq(d, Len(d) - 1, Len(d)) = ExchangeRows(task[t])
    /\ \A u \in Users :
        \A i \in DOMAIN HotList(u) :
            /\ HotList(u)[i].role \in {"user", "assistant"}
            /\ DOMAIN HotList(u)[i] = {"role", "content", "timestamp"}
    /\ \A i \in DOMAIN db_rows : db_rows[i].role \in {"user", "assistant"}

\* an exhausted turn, after five answers that asked for a tool
C7_Witness ==
    \E t \in Tasks :
        /\ task[t].pc = "returned" /\ task[t].outcome = "exhausted"
        /\ ToolRequests(task[t]) = max_iterations
        /\ faults = 0
        /\ db_enabled
        /\ Len(DurableLog(task[t].phone_number)) >= 2

\* C8: execute_tool never raises; an unknown name gives success = false and
\* no executor call; a known name calls exactly its executor, once, and an
\* executor that raises gives success = false.
C8_ExecuteToolTotal ==
    \A t \in Tasks :
        task[t].last_tool # <<>> =>
            LET c == task[t].last_tool[1]
            IN /\ ~c.raised
               /\ c.tool_name \notin TOOL_FUNCTIONS =>
                    (~c.result.success /\ c.invoked = <<>>)
               /\ c.tool_name \in TOOL_FUNCTIONS =>
                    c.invoked = <<[executor |-> c.tool_name, args |-> c.tool_args]>>
               /\ (c.tool_name \in TOOL_FUNCTIONS /\ c.behaviour = "raises") =>
                    ~c.result.success

\* a known tool whose executor raised
C8_Witness ==
    \E t \in Tasks :
        /\ task[t].last_tool # <<>>
        /\ task[t].last_tool[1].tool_name \in TOOL_FUNCTIONS
        /\ task[t].last_tool[1].behaviour = "raises"
        /\ ~task[t].last_tool[1].result.success

\* C9: a failed invocation does not end the loop: its result is appended as a
\* tool message, the next invocation of the same answer is dispatched, and
\* after the last one the model is queried again while the bound allows.
C9_FailedToolContinues ==
    [][\A t \in Tasks :
        (/\ task[t].pc = "await_tool"
         /\ task'[t] # task[t]
         /\ task'[t].last_tool # <<>>
         /\ ~task'[t].last_tool[1].result.success) =>
            LET tk == task[t]
                tk2 == task'[t]
                call == tk.tool_calls[tk.idx]
                last == tk.idx = Len(tk.tool_calls)
            IN /\ tk2.current_messages = Append(tk.current_messages,
                    [role |-> "tool", tool_call_id |-> call.id, name |-> call.name,
                     content |-> JsonDumps(tk2.last_tool[1].result)])
               /\ (~last /\ JsonValid(tk.tool_calls[tk.idx + 1].arguments)) =>
                    (tk2.pc = "await_tool" /\ tk2.idx = tk.idx + 1)
               /\ (last /\ tk.iteration < max_iterations) =>
                    (tk2.pc = "await_post" /\ tk2.queries = tk.queries + 1)
               /\ (last /\ tk.iteration = max_iterations) =>
                    (tk2.pc = "returned" /\ tk2.outcome = "exhausted")]_vars

\* the model is queried again right after a failed invocation
C9_Witness ==
    \E t \in Tasks :
        LET tk == task[t]
            n == Len(tk.current_messages)
        IN /\ tk.pc = "await_post"
           /\ tk.last_tool # <<>>
           /\ ~tk.last_tool[1].result.success
           /\ tk.current_messages[n].role = "tool"
           /\ tk.current_messages[n].content = JsonDumps(tk.last_tool[1].result)

\* C10: notify_manager requested without user_phone is dispatched with
\* user_phone = the turn's phone number; a given user_phone is kept, and the
\* arguments of any other tool are dispatched as parsed.
C10_UserPhoneInjected ==
    \A t \in Tasks :
        task[t].pc = "await_tool" =>
            LET tk == task[t]
                call == tk.tool_calls[tk.idx]
                parsed == JsonLoads(call.arguments)
            IN IF call.name = "notify_manager" /\ "user_phone" \notin DOMAIN parsed
               THEN /\ DOMAIN tk.tool_args = DOMAIN parsed \cup {"user_phone"}
                    /\ tk.tool_args["user_phone"] = tk.phone_number
                    /\ \A k \in DOMAIN parsed : tk.tool_args[k] = parsed[k]
               ELSE tk.tool_args = parsed

\* notify_manager on its way to execute_tool with the injected phone number
C10_Witness ==
    \E t \in Tasks :
        /\ task[t].pc = "await_tool"
        /\ task[t].tool_calls[task[t].idx].name = "notify_manager"
        /\ "user_phone" \notin DOMAIN JsonLoads(task[t].tool_calls[task[t].idx].arguments)
        /\ task[t].tool_args["user_phone"] = task[t].phone_number

\* the messages the loop has added to the stack it was given
StackTail(tk) ==
    SubSeq(tk.current_messages, Len(tk.messages) + 1, Len(tk.current_messages))

IsToolRequest(msg) == msg.role = "assistant" /\ Len(msg.tool_calls) > 0

\* the executor calls that the tool-result messages of a stack stand for
KnownResults(tail) ==
    SelectSeq(tail, LAMBDA msg : msg.role = "tool" /\ msg.name \in TOOL_FUNCTIONS)

\* the number of calls of a request that come before its first unparsable one
Parsable(calls) ==
    IF \A j \in DOMAIN calls : JsonValid(calls[j].arguments)
    THEN Len(calls)
    ELSE (CHOOSE j \in DOMAIN calls :
            /\ ~JsonValid(calls[j].arguments)
            /\ \A h \in 1..(j - 1) : JsonValid(calls[h].arguments)) - 1

\* the tool-request at tail[r] is followed by the results of its first n calls,
\* in the order requested, each with the call's id and tool name
ResultsFollow(tail, r, n) ==
    \A j \in 1..n :
        /\ r + j <= Len(tail)
        /\ tail[r + j].role = "tool"
        /\ tail[r + j].tool_call_id = tail[r].tool_calls[j].id
        /\ tail[r + j].name = tail[r].tool_calls[j].name

\* every tool-result message answers a call of the request before it, and
\* every known tool named by a result was executed once, in that order
ResultsBelong(tk) ==
    LET tail == StackTail(tk)
    IN /\ \A i \in DOMAIN tail :
            tail[i].role = "tool" =>
                \E r \in 1..(i - 1) :
                    /\ IsToolRequest(tail[r])
                    /\ i - r <= Len(tail[r].tool_calls)
                    /\ tail[i].tool_call_id = tail[r].tool_calls[i - r].id
       /\ Len(tk.effects) = Len(KnownResults(tail))
       /\ \A i \in DOMAIN tk.effects :
            tk.effects[i].executor = KnownResults(tail)[i].name

\* C11 (as claimed): whenever the loop is about to query the model again, or
\* has ended, every tool-request message in the stack is followed by one
\* result message for each of its k invocations, in the order requested, with
\* the invocation's id and tool name; every invocation ran exactly once.
C11_EveryCallExecuted ==
    \A t \in Tasks :
        (task[t].path = "agent" /\ task[t].pc \in {"await_post", "returned"}) =>
            LET tail == StackTail(task[t])
            IN /\ ResultsBelong(task[t])
               /\ \A r \in DOMAIN tail :
                    IsToolRequest(tail[r]) =>
                        ResultsFollow(tail, r, Len(tail[r].tool_calls))

\* the part of C11 that the code keeps: the invocations before the first one
\* whose arguments cannot be parsed are executed once each, in order, and
\* while invocation idx is awaited exactly idx - 1 results follow the request
C11_ParsedCallsExecuted ==
    \A t \in Tasks :
        task[t].path = "agent" =>
            LET tk == task[t]
                tail == StackTail(tk)
            IN /\ ResultsBelong(tk)
               /\ tk.pc \in {"await_post", "returned"} =>
                    \A r \in DOMAIN tail :
                        IsToolRequest(tail[r]) =>
                            ResultsFollow(tail, r, Parsable(tail[r].tool_calls))
               /\ tk.pc = "await_tool" =>
                    /\ Len(tail) >= tk.idx
                    /\ IsToolRequest(tail[Len(tail) - tk.idx + 1])
                    /\ ResultsFollow(tail, Len(tail) - tk.idx + 1, tk.idx - 1)

\* the stack that process_message builds for user u from the store as it is
StackFor(u, user_message, is_first_message) ==
    BuildMessages(<<SystemPrompt(is_first_message), "agent_instructions">>,
                  HotForGpt(u), user_message)

\* a step in which process_message starts an agent turn in slot t and its
\* history read does not fail
StartsTurn(t) ==
    /\ task[t].pc = "idle"
    /\ task'[t].path = "agent"
    /\ faults' = faults

\* C12 (as claimed): the stack of a turn is one system message, the user's
\* stored hot-tier history (oldest first, role and content only, at most
\* max_messages_per_chat messages), then the current user message; it is
\* built from the store at every turn and the loop leaves the list it was
\* given as it is.
C12_PromptStackBounded ==
    [][\A t \in Tasks :
        /\ StartsTurn(t) =>
            LET tk == task'[t]
                m == tk.messages
            IN /\ m = StackFor(tk.phone_number, tk.user_message, tk.is_first_message)
               /\ m[1].role = "system"
               /\ m[Len(m)] = [role |-> "user", content |-> tk.user_message]
               /\ Len(m) - 2 <= max_messages_per_chat
               /\ tk.current_messages = m
        /\ (task[t].pc # "idle" /\ task'[t].pc # "idle") =>
                task'[t].messages = task[t].messages]_vars

\* the part of C12 that the code keeps: the same, the history holding at most
\* max_messages_per_chat messages when that maximum is positive
C12_PromptStack ==
    [][\A t \in Tasks :
        /\ StartsTurn(t) =>
            LET tk == task'[t]
                m == tk.messages
            IN /\ m = StackFor(tk.phone_number, tk.user_message, tk.is_first_message)
               /\ m[1].role = "system"
               /\ m[Len(m)] = [role |-> "user", content |-> tk.user_message]
               /\ \A i \in 2..(Len(m) - 1) : DOMAIN m[i] = {"role", "content"}
               /\ max_messages_per_chat >= 1 => Len(m) - 2 <= max_messages_per_chat
               /\ tk.current_messages = m
        /\ (task[t].pc # "idle" /\ task'[t].pc # "idle") =>
                task'[t].messages = task[t].messages]_vars

\* the hot-tier list of u (role and content) once the exchange of tk is saved
HotAfterExchange(u, tk) ==
    LET full == HotForGpt(u) \o Exchange(tk)
    IN IF max_messages_per_chat = 0 THEN full
       ELSE MostRecent(full, max_messages_per_chat)

\* the store and the hot-tier list of u after the step
MemNext == [redis |-> redis_store', mem |-> in_memory_storage', rows |-> db_rows',
            clock |-> clock']
HotForGptNext(u) == GetMessagesForGpt(MemNext, u, FALSE)

\* the exchange of the turn that returns in this step is recorded by it
RecordedNow(t) ==
    LET tk == task'[t]
        u == tk.phone_number
    IN faults' = faults =>
        /\ HotForGptNext(u) = HotAfterExchange(u, tk)
        /\ db_enabled => db_rows' = db_rows \o ExchangeRows(tk)

\* the completion call awaited in slot t ends without success in this step
TransportFails(t) ==
    /\ task[t].pc = "await_post"
    /\ task'[t].pc = "returned"
    /\ task'[t].response # <<>>
    /\ \/ task'[t].response[1].kind = "raise"
       \/ task'[t].response[1].status # 200

C14_NeverRaises ==
    \A t \in Tasks :
        /\ task[t].pc # "raised"
        /\ task[t].pc = "returned" => task[t].result # ""

\* the part of C14 that the code keeps: with the agent enabled every call
\* returns a text, and so does ask_gpt unless its completion call raises
C14_AgentNeverRaises ==
    \A t \in Tasks :
        /\ task[t].pc = "raised" =>
                /\ task[t].path = "gpt"
                /\ task[t].response[1].kind = "raise"
        /\ task[t].pc = "returned" => task[t].result # ""

\* the list held for u in the hot tier, read off the store itself
Stored(u) ==
    IF redis_client
    THEN IF GetChatKey(u) \in DOMAIN redis_store
         THEN redis_store[GetChatKey(u)].value[2]
         ELSE <<>>
    ELSE IF u \in DOMAIN in_memory_storage THEN in_memory_storage[u] ELSE <<>>

\* C15: get_chat_history returns the list held in the hot tier, and the empty
\* list when the user has no entry, when the entry has expired and when the
\* backend fails on the call, whatever the durable log holds; the call
\* changes neither tier.
C15_ReadRecent ==
    [][ret'.op = "get_chat_history" =>
        /\ memVars' = memVars
        /\ ret'.result = IF ret'.fault.get THEN <<>> ELSE Stored(ret'.user)]_vars

\* a read that found the backend failing, and a read of an entry that is gone,
\* both answered with the empty list while the durable log has rows
C15_Witness ==
    /\ ret.op = "get_chat_history"
    /\ ret.result = <<>>
    /\ DurableLog(ret.user) # <<>>
    /\ ret.fault.get \/ appended[ret.user] = <<>>

\* the TTL of u's Redis entry runs out in this step
Expires(u) ==
    /\ redis_client
    /\ ret'.op = "tick"
    /\ task' = task
    /\ GetChatKey(u) \in DOMAIN redis_store
    /\ redis_store[GetChatKey(u)].ttl = 1

\* C16: when the TTL of a user's entry runs out with no new append,
\* get_chat_history returns the empty list and is_first_message is true
\* again, and the durable log is what it was: expiry empties the hot tier only.
C16_ExpiryEmptiesHotTierOnly ==
    [][\A u \in Users :
        Expires(u) =>
            /\ GetChatHistory(MemNext, u, FALSE) = <<>>
            /\ IsFirstMessage(MemNext, u, FALSE)
            /\ db_rows' = db_rows]_vars

\* a TTL of two seconds has run out for a user whose durable log has rows, and
\* is_first_message has answered true
C16_Witness ==
    /\ redis_client
    /\ ttl_seconds = MaxTtl
    /\ ret.op = "is_first_message"
    /\ ret.result = TRUE
    /\ ~ret.fault.get
    /\ DurableLog(ret.user) # <<>>
    /\ appended[ret.user] = <<>>

\* C17 (as claimed): get_full_history_from_db returns the user's durable rows
\* and nothing else: the empty list whenever the durable tier is disabled,
\* whatever the hot tier holds.
C17_FullHistoryDurableOnly ==
    ret.op = "get_full_history_from_db" =>
        /\ db_enabled => ret.result = DurableLog(ret.user)
        /\ ~db_enabled => ret.result = <<>>

\* what the code does: the durable rows when the durable tier is enabled, the
\* hot-tier history when it is disabled
C17_FullHistory ==
    ret.op = "get_full_history_from_db" =>
        /\ db_enabled => ret.result = DurableLog(ret.user)
        /\ (~db_enabled /\ ~ret.fault.get) => ret.result = Stored(ret.user)

\* whether the hot tier has an entry for u
HasEntry(u) ==
    IF redis_client THEN GetChatKey(u) \in DOMAIN redis_store
    ELSE u \in DOMAIN in_memory_storage

\* clear_chat_history(u) is called in this step and its backend call succeeds
Clears(u) ==
    /\ ret'.op = "clear_chat_history"
    /\ ret'.user = u
    /\ ~ret'.fault.get
    /\ task' = task

\* C18: clear_chat_history(u) removes u's hot-tier entry, so that
\* is_first_message(u) is true afterwards, changes nothing when u has no
\* entry, and leaves the durable rows as they are; no step of a turn or of the
\* store deletes or changes a durable row: the log only grows at its end.
C18_ClearKeepsDurable ==
    [][/\ Len(db_rows') >= Len(db_rows)
       /\ SubSeq(db_rows', 1, Len(db_rows)) = db_rows
       /\ \A u \in Users :
            Clears(u) =>
                /\ IsFirstMessage(MemNext, u, FALSE)
                /\ GetChatHistory(MemNext, u, FALSE) = <<>>
                /\ db_rows' = db_rows
                /\ ~HasEntry(u) => memVars' = memVars]_vars

\* the history of a user was cleared after a turn had been recorded for them:
\* first contact again, the durable rows still there
C18_Witness ==
    /\ ret.op = "clear_chat_history"
    /\ ~ret.fault.get
    /\ turns >= 1
    /\ db_enabled
    /\ Len(DurableLog(ret.user)) >= 2
    /\ IsFirstMessage(Mem, ret.user, FALSE)

\* the durable row that an add_message call stands for
RowOf(call) == [phone_number |-> call.user, role |-> call.role, content |-> call.content]

\* C19 (as claimed): with the durable tier enabled, every add_message call
\* attempts the durable write, whether or not the hot-tier read-modify-write
\* of the same call succeeded: unless the durable write itself fails, the
\* message is the last durable row after the call.
C19_DurableWriteIndependent ==
    (ret.op = "add_message" /\ db_enabled /\ ~ret.fault.save) =>
        /\ db_rows # <<>>
        /\ db_rows[Len(db_rows)] = RowOf(ret)

\* what the code does: the durable write is attempted after the hot-tier
\* write and only when that did not raise (a failed read inside add_message
\* is swallowed and does not prevent either write)
C19_DurableWriteAfterHotWrite ==
    (ret.op = "add_message" /\ db_enabled /\ ~ret.fault.save /\ ~ret.fault.setex) =>
        /\ db_rows # <<>>
        /\ db_rows[Len(db_rows)] = RowOf(ret)

\* a turn that has returned after recording its exchange
Saved(tk) ==
    tk.pc = "returned" /\ tk.outcome \in {"final", "unavailable", "exhausted"}

\* the two rows occur in the log, the second right after the first
Contains(log, rows) ==
    \E i \in 1..(Len(log) - 1) : SubSeq(log, i, i + 1) = rows

\* C20: with the durable tier enabled, the user message and the assistant
\* message of every turn that has completed are in the user's durable log,
\* however the turns of that user were interleaved and whatever the hot-tier
\* list holds; every add_message made has its row.
C20_BothTurnsLogged ==
    db_enabled =>
        /\ Len(db_rows) = clock
        /\ \A t \in Tasks :
            Saved(task[t]) =>
                Contains(DurableLog(task[t].phone_number), ExchangeRows(task[t]))

\* two turns of one user that both read the empty history before either wrote
\* (no history was cleared), both completed: the durable log has the four rows
C20_Witness ==
    /\ db_enabled
    /\ ret = NoCall
    /\ \A t \in Tasks : Saved(task[t]) /\ task[t].phone_number = "u1"
    /\ task["t1"].user_message # task["t2"].user_message
    /\ Len(task["t1"].messages) = 2
    /\ Len(task["t2"].messages) = 2
    /\ Len(DurableLog("u1")) = 4

\* the hot-tier entry of u as the backend holds it (the Redis value with its
\* TTL, or the list of the in-memory fallback); <<>> when there is none
EntryOf(m, u) ==
    IF redis_client
    THEN IF GetChatKey(u) \in DOMAIN m.redis THEN <<m.redis[GetChatKey(u)]>> ELSE <<>>
    ELSE IF u \in DOMAIN m.mem THEN <<m.mem[u]>> ELSE <<>>

\* the step is an operation made for user a: a ChatMemory call for a, or a step
\* of a turn of a
OperationFor(a) ==
    \/ /\ task' = task
       /\ ret'.op \in {"add_message", "clear_chat_history"}
       /\ ret'.user = a
    \/ \E t \in Tasks :
        /\ task'[t] # task[t]
        /\ a \in {task[t].phone_number, task'[t].phone_number}

\* what the store holds and answers for user b is the same after the step
SameFor(b) ==
    /\ GetChatHistory(MemNext, b, FALSE) = GetChatHistory(Mem, b, FALSE)
    /\ SelectSeq(db_rows', LAMBDA r : r.phone_number = b) = DurableLog(b)
    /\ IsFirstMessage(MemNext, b, FALSE) = IsFirstMessage(Mem, b, FALSE)

\* C21: an operation made for user a (an append, a clear, any step of a turn
\* with its tool calls and its two appends) leaves the hot-tier entry, the
\* durable rows and the first-contact status of every other user b as they
\* were, and so does the expiry of a's entry for a user b whose own entry is
\* not expiring in the same second.
C21_UsersIndependent ==
    [][\A a \in Users : \A b \in Users \ {a} :
        /\ OperationFor(a) => (SameFor(b) /\ EntryOf(MemNext, b) = EntryOf(Mem, b))
        /\ (Expires(a) /\ ~Expires(b)) => SameFor(b)]_vars

\* a turn of u1 with a tool call was recorded while u2 had a history of their
\* own, which is still there after u1's entry has expired
C21_Witness ==
    /\ redis_client /\ db_enabled
    /\ ret.op = "tick"
    /\ \E t \in Tasks :
        /\ Saved(task[t]) /\ task[t].phone_number = "u1" /\ task[t].effects # <<>>
    /\ ~HasEntry("u1")
    /\ Len(HotList("u2")) >= 1
    /\ Len(DurableLog("u1")) >= 2
    /\ Len(DurableLog("u2")) >= 1

\* no usable text can be extracted from the event that handler h was given:
\* the text is missing, not a string or whitespace only; a voice message has
\* no download URL, transcription is disabled, or it failed or gave nothing
NoUsableText(h) ==
    /\ h.payload # <<>>
    /\ h.from_number # ""
    /\ LET p == h.payload[1]
       IN \/ /\ p.typeMessage \in TextTypes
             /\ p.text.type # "str" \/ p.text.value \in Blank
          \/ /\ p.typeMessage \in VoiceTypes
             /\ \/ ~p.downloadUrl
                \/ ~speech_enabled
                \/ /\ h.speech # <<>>
                   /\ \/ h.speech[1].kind = "raise"
                      \/ h.speech[1].text.type # "str"
                      \/ h.speech[1].text.value \in Blank

LastAppended ==
    LET h == Stored(ret.user)
    IN /\ h # <<>>
       /\ h[Len(h)].role = ret.role
       /\ h[Len(h)].content = ret.content

QueryStack(tk) ==
    IF tk.pc = "await_post" THEN Len(tk.current_messages)
    ELSE IF tk.response # <<>> /\ tk.response[1].kind = "ok" /\ tk.response[1].status = 200
    THEN (CHOOSE i \in DOMAIN tk.current_messages :
            /\ tk.current_messages[i].role = "assistant"
            /\ \A j \in (i + 1)..Len(tk.current_messages) :
                    tk.current_messages[j].role # "assistant") - 1
    ELSE Len(tk.current_messages)

\* the tool results of the turn that no model query has carried
NotFedBack(tk) ==
    {i \in DOMAIN tk.current_messages :
        tk.current_messages[i].role = "tool" /\ i > QueryStack(tk)}

\* C24 (as claimed): when a turn has ended, the result of every tool invocation
\* that the loop executed was in the stack of a later model query of the turn,
\* the invocations requested by the answer to query max_iterations included.
C24_EveryResultFedBack ==
    \A t \in Tasks :
        (task[t].path = "agent" /\ task[t].pc = "returned") => NotFedBack(task[t]) = {}

\* what the code does: a result is appended to the stack when its invocation
\* returns, and the stack is sent with the next query if there is one; there
\* is none after query max_iterations (the loop ends exhausted) nor after a
\* requested call whose arguments cannot be parsed (the turn is abandoned)
C24_FedBackWhenQueriedAgain ==
    \A t \in Tasks :
        (task[t].path = "agent" /\ task[t].pc = "returned" /\ NotFedBack(task[t]) # {}) =>
            \/ task[t].outcome = "exhausted" /\ task[t].queries = max_iterations
            \/ /\ task[t].outcome = "abandoned"
               /\ ~JsonValid(task[t].tool_calls[task[t].idx].arguments)

\* the contents of the answers that asked for tools during the turn
PartialContents(tk) ==
    {tk.current_messages[i].content : i \in {j \in DOMAIN tk.current_messages :
        /\ tk.current_messages[j].role = "assistant"
        /\ "tool_calls" \in DOMAIN tk.current_messages[j]
        /\ Len(tk.current_messages[j].tool_calls) > 0}}

\* C25: the text that the tool loop returns is the content of an answer
\* without tool calls, the exhaustion text or the unavailable text; the
\* content of an answer that asks for tools is neither returned nor stored in
\* either tier.
C25_NoPartialOutput ==
    /\ \A t \in Tasks :
        (task[t].path = "agent" /\ task[t].pc = "returned") =>
            LET tk == task[t]
            IN /\ tk.outcome \in {"final", "exhausted", "unavailable", "abandoned"}
               /\ tk.outcome = "final" =>
                    /\ tk.response[1].tool_calls = <<>>
                    /\ tk.result = tk.response[1].content
               /\ tk.outcome = "exhausted" => tk.result = ExhaustedText
               /\ tk.outcome = "unavailable" => tk.result = UnavailableText
               /\ tk.outcome = "abandoned" => tk.result = ApologyText
               /\ tk.result \notin PartialContents(tk)
    /\ \A u \in Users : \A i \in DOMAIN HotList(u) :
            HotList(u)[i].content \in
                Texts \cup {FinalResponse.content, ExhaustedText, UnavailableText}
    /\ \A i \in DOMAIN db_rows :
            db_rows[i].content \in
                Texts \cup {FinalResponse.content, ExhaustedText, UnavailableText}

\* a loop that ended exhausted after answers that carried content with their
\* tool calls: the exhaustion text is what was returned and recorded
C25_Witness ==
    \E t \in Tasks :
        LET tk == task[t]
        IN /\ tk.pc = "returned" /\ tk.outcome = "exhausted"
           /\ PartialContents(tk) = {ToolResponse(<<>>).content}
           /\ tk.result = ExhaustedText
           /\ db_rows # <<>>
           /\ db_rows[Len(db_rows)].content = ExhaustedText

(***************************************************************************)
(* C26: in Redis mode every add_message whose setex succeeds leaves the    *)
(* user's entry with the full TTL, whatever time the entry had left; the   *)
(* entry is there and readable exactly while fewer than ttl_seconds        *)
(* seconds have passed since the most recent successful append, with       *)
(* ttl_seconds minus that time left to live; and get_chat_history,         *)
(* is_first_message and get_messages_for_gpt leave the store, the time     *)
(* left included, as it was.                                               *)
(***************************************************************************)
HotReads == {"get_chat_history", "is_first_message", "get_messages_for_gpt"}

C26_FreshTtlOnAppend ==
    [][redis_client =>
        /\ (ret'.op = "add_message" /\ task' = task /\ ~ret'.fault.setex) =>
                /\ GetChatKey(ret'.user) \in DOMAIN redis_store'
                /\ redis_store'[GetChatKey(ret'.user)].ttl = ttl_seconds
        /\ \A u \in Users :
                /\ (GetChatKey(u) \in DOMAIN redis_store') <=> (since'[u] < ttl_seconds)
                /\ (GetChatKey(u) \in DOMAIN redis_store') =>
                        /\ redis_store'[GetChatKey(u)].ttl = ttl_seconds - since'[u]
                        /\ GetChatHistory(MemNext, u, FALSE) # <<>>
        /\ (ret'.op \in HotReads /\ task' = task) => redis_store' = redis_store
    ]_vars

\* u1 appended, then u2 appended, a second passed (u2's entry, written once,
\* has lost a second, so u1's first message is at least as old), and u1 has
\* just appended again: u1's entry has the full TTL
C26_Witness ==
    /\ redis_client
    /\ ttl_seconds >= 2
    /\ ret.op = "add_message" /\ ret.user = "u1" /\ ~ret.fault.setex
    /\ Len(HotList("u1")) = 2
    /\ redis_store[GetChatKey("u1")].ttl = ttl_seconds
    /\ Len(appended["u2"]) = 1
    /\ HotList("u2") = appended["u2"]
    /\ redis_store[GetChatKey("u2")].ttl = ttl_seconds - 1
    /\ HotList("u1")[1].timestamp < HotList("u2")[1].timestamp
    /\ since = [u \in Users |-> IF u = "u1" THEN 0 ELSE 1]

FailedSends(h) ==
    {i \in DOMAIN h.sends :
        "outcome" \in DOMAIN h.sends[i] /\ h.sends[i].outcome \in {"error", "raises"}}

C27_FailureReported ==
    \A t \in Tasks :
        LET h == webhook[t]
        IN (h.pc = "returned" /\ FailedSends(h) # {}) =>
                \/ h.result[1].http = 500
                \/ h.result[1].send_result = <<"error">>

\* what does hold: a second request is made only after the send of the n8n
\* path raised, there is never a third, and on the direct path the result of
\* the delivery is part of what the handler returns
C27_SecondDeliveryOnlyAfterN8nSendRaised ==
    \A t \in Tasks :
        LET h == webhook[t]
        IN /\ Len(h.sends) <= 2
           /\ Len(h.sends) = 2 =>
                /\ use_n8n
                /\ h.sends[1].outcome = "raises"
                /\ h.sends[1].text = h.n8n[2].response
           /\ (h.pc = "returned" /\ ~use_n8n /\ h.status = "" /\ FailedSends(h) # {}) =>
                \/ h.result[1].http = 500
                \/ h.result[1].send_result = <<"error">>

(***************************************************************************)
(* C28: what the executed tools did stays done whatever becomes of the     *)
(* turn.  The record of a turn's executor invocations only grows, and only *)
(* by the invocation that the awaited tool call asked for (no call is made *)
(* to undo another); every step of a turn that does not end it with a      *)
(* recorded answer - the step that abandons it included - leaves both      *)
(* tiers of the history as they were.                                      *)
(***************************************************************************)
C28_EffectsOutliveAbandonedTurn ==
    [][\A t \in Tasks :
        LET tk == task[t]
            tk2 == task'[t]
        IN /\ (tk.pc # "idle" /\ tk2.pc # "idle") =>
                /\ Len(tk2.effects) >= Len(tk.effects)
                /\ SubSeq(tk2.effects, 1, Len(tk.effects)) = tk.effects
           /\ (tk2.pc # "idle" /\ tk2.effects # tk.effects) =>
                /\ tk.pc = "await_tool"
                /\ tk2.effects = Append(tk.effects,
                                        [executor |-> tk.tool_calls[tk.idx].name,
                                         args |-> tk.tool_args])
           /\ (tk2 # tk /\ ~Saved(tk2)) =>
                /\ memVars' = memVars
                /\ appended' = appended
    ]_vars

\* a second turn abandoned by a raising model query after a tool ran: the
\* invocation is on record and the history is the first turn's exchange
C28_Witness ==
    \E t \in Tasks :
        LET tk == task[t]
        IN /\ tk.pc = "returned" /\ tk.outcome = "abandoned"
           /\ tk.response[1].kind = "raise"
           /\ tk.effects # <<>>
           /\ turns = 2
           /\ Len(appended[tk.phone_number]) = 2
           /\ Len(DurableLog(tk.phone_number)) = 2

\* the same after a later call's arguments could not be parsed
C28_WitnessBadArguments ==
    \E t \in Tasks :
        LET tk == task[t]
        IN /\ tk.pc = "returned" /\ tk.outcome = "abandoned"
           /\ tk.response[1].kind = "ok"
           /\ ~JsonValid(tk.tool_calls[tk.idx].arguments)
           /\ tk.effects # <<>>

(***************************************************************************)
(* C29: after an add_message that writes the hot tier, the stored list is  *)
(* the list stored before with the new message appended, cut to its last   *)
(* max_messages_per_chat entries - also when the read of the hot tier      *)
(* inside add_message fails.  Stated for max_messages_per_chat >= 1: what  *)
(* a bound of 0 does to the cut is the subject of C2.                      *)
(***************************************************************************)
WritesHotTier(call) ==
    call.op = "add_message" /\ ~(redis_client /\ call.fault.setex)

C29_AddNeverDiscards ==
    [][(WritesHotTier(ret') /\ task' = task /\ max_messages_per_chat >= 1) =>
            GetChatHistory(MemNext, ret'.user, FALSE) =
                MostRecent(Append(HotList(ret'.user),
                                  Message(ret'.role, ret'.content, clock)),
                           max_messages_per_chat)
    ]_vars

\* what does hold: the same when the read inside add_message succeeded and
\* max_messages_per_chat is at least 1
C29_AppendAndTrimWhenReadSucceeds ==
    [][(WritesHotTier(ret') /\ task' = task /\ ~ret'.fault.get
            /\ max_messages_per_chat >= 1) =>
            GetChatHistory(MemNext, ret'.user, FALSE) =
                MostRecent(Append(HotList(ret'.user),
                                  Message(ret'.role, ret'.content, clock)),
                           max_messages_per_chat)
    ]_vars

\* and what the failed read costs: the entry is rewritten with the new
\* message alone
C29_FailedReadLeavesNewMessageOnly ==
    [][(WritesHotTier(ret') /\ task' = task /\ ret'.fault.get) =>
            GetChatHistory(MemNext, ret'.user, FALSE) =
                <<Message(ret'.role, ret'.content, clock)>>
    ]_vars

(***************************************************************************)
(* C30: turns of one user that interleave in any way, with room for every  *)
(* message (max_messages_per_chat >= 2 * MaxTurns), nothing expiring and   *)
(* no backend call failing: the hot-tier list holds every message that was *)
(* appended (none is lost), it is made of pairs - a user message and the   *)
(* assistant message appended right after it - and the exchange of every   *)
(* completed turn is one of these pairs.                                   *)
(***************************************************************************)
C30_NoLostUpdateNoSplitPair ==
    LET H == HotList("u1")
    IN /\ Len(H) = clock
       /\ H = appended["u1"]
       /\ \A i \in DOMAIN H :
            IF i % 2 = 1
            THEN /\ H[i].role = "user"
                 /\ i < Len(H)
            ELSE /\ H[i].role = "assistant"
                 /\ H[i].timestamp = H[i - 1].timestamp + 1
       /\ \A t \in Tasks :
            Saved(task[t]) =>
                \E i \in 1..(Len(H) - 1) :
                    /\ i % 2 = 1
                    /\ H[i].role = "user" /\ H[i].content = task[t].user_message
                    /\ H[i + 1].role = "assistant" /\ H[i + 1].content = task[t].result

\* two turns that both started on the empty history (the second before the
\* first was recorded) and both completed: four messages in the hot tier
C30_Witness ==
    /\ \A t \in Tasks : Saved(task[t]) /\ Len(task[t].messages) = 2
    /\ task["t1"].user_message # task["t2"].user_message
    /\ Len(HotList("u1")) = 4
    /\ max_messages_per_chat >= 4

(***************************************************************************)
(* C31: every prompt that ask_gpt builds is consistent about first         *)
(* contact: its system prompt is the first-turn variant if and only if no  *)
(* stored message stands between the system prompt and the current user    *)
(* message - whatever other handler of the same sender ran in between.     *)
(***************************************************************************)
HistoryPart(messages) == SubSeq(messages, 2, Len(messages) - 1)

C31_PromptConsistent ==
    \A t \in Tasks :
        LET tk == task[t]
        IN (tk.path = "gpt" /\ tk.messages # <<>>) =>
                ((tk.messages[1].content = SystemPrompt(TRUE))
                    <=> (HistoryPart(tk.messages) = <<>>))

\* what does hold: the flag is the emptiness of the hot tier at the entry of
\* the handler, so a prompt can only be inconsistent in one direction - the
\* first-turn variant in front of a history that another handler recorded
\* since
C31_OnlyStaleFirst ==
    \A t \in Tasks :
        LET tk == task[t]
        IN (tk.path = "gpt" /\ tk.messages # <<>>) =>
                (HistoryPart(tk.messages) = <<>> =>
                    tk.messages[1].content = SystemPrompt(TRUE))

(***************************************************************************)
(* C32: the step that completes a turn with a recorded answer leaves, in   *)
(* each tier, both messages of the turn or neither - for a hot tier with   *)
(* room for two messages, and also when a call of a back end fails during  *)
(* one of the two add_message calls.                                       *)
(***************************************************************************)
InList(list, message) == \E i \in DOMAIN list : list[i] = message

Completes(t) == ~Saved(task[t]) /\ Saved(task'[t])

C32_BothOrNeither ==
    [][\A t \in Tasks :
        (Completes(t) /\ max_messages_per_chat >= 2) =>
            LET tk == task'[t]
                H == GetChatHistory(MemNext, tk.phone_number, FALSE)
            IN /\ InList(H, Message("user", tk.user_message, clock))
                    <=> InList(H, Message("assistant", tk.result, clock + 1))
               /\ Len(db_rows') - Len(db_rows) \in {0, 2}
    ]_vars

\* what does hold: without a failure during the two calls both messages are
\* in the hot tier, and in the durable tier when it is enabled
C32_BothWhenNothingFails ==
    [][\A t \in Tasks :
        (Completes(t) /\ max_messages_per_chat >= 2 /\ faults' = faults) =>
            LET tk == task'[t]
                H == GetChatHistory(MemNext, tk.phone_number, FALSE)
            IN /\ Len(H) >= 2
               /\ SubSeq(H, Len(H) - 1, Len(H)) =
                    <<Message("user", tk.user_message, clock),
                      Message("assistant", tk.result, clock + 1)>>
               /\ Len(db_rows') - Len(db_rows) = IF db_enabled THEN 2 ELSE 0
    ]_vars

(***************************************************************************)
(* C33: with the durable tier enabled, every user's hot-tier list, as      *)
(* (role, content), is the end of that user's durable log, in the same     *)
(* order: true at the start and kept by every add_message whose durable    *)
(* write does not fail, by every read, by clear_chat_history and by the    *)
(* passing of a second with its expiries.                                  *)
(***************************************************************************)
RoleContent(list) ==
    [i \in DOMAIN list |-> [role |-> list[i].role, content |-> list[i].content]]

LogOf(m, u) == SelectSeq(m.rows, LAMBDA r : r.phone_number = u)

HotIsSuffix(m, u) ==
    LET h == RoleContent(GetChatHistory(m, u, FALSE))
        d == RoleContent(LogOf(m, u))
    IN /\ Len(h) <= Len(d)
       /\ SubSeq(d, Len(d) - Len(h) + 1, Len(d)) = h

C33_HotIsSuffixOfDurable ==
    /\ (db_enabled /\ clock = 0) => \A u \in Users : HotIsSuffix(Mem, u)
    /\ [][(/\ db_enabled
            /\ memVars' # memVars
            /\ ~(ret'.op = "add_message" /\ ret'.fault.save)
            /\ \A u \in Users : HotIsSuffix(Mem, u))
            => \A u \in Users : HotIsSuffix(MemNext, u)]_vars

\* an append after the earlier messages left the hot tier (cleared or
\* expired): one message in the hot tier, the last of three in the log
C33_Witness ==
    /\ db_enabled
    /\ max_messages_per_chat = MaxN
    /\ ret.op = "add_message"
    /\ \E u \in Users :
        /\ ret.user = u
        /\ Len(HotList(u)) = 1
        /\ Len(DurableLog(u)) = 3
        /\ HotIsSuffix(Mem, u)
        /\ DurableLog(u)[2].role # DurableLog(u)[3].role

(***************************************************************************)
(* C34: without expiry and without failures the Redis-backed store and the *)
(* in-process store answer every read alike.  The sequence of calls made   *)
(* so far fixes, whatever the mode, the messages appended since the last   *)
(* clear; in both modes the stored list, the result of get_chat_history    *)
(* and the result of is_first_message are the same function of them.       *)
(***************************************************************************)
\* what either mode holds after the calls: the last max_messages_per_chat
\* of the appended messages, and all of them when the maximum is 0
Kept(u) ==
    IF max_messages_per_chat = 0 THEN appended[u]
    ELSE MostRecent(appended[u], max_messages_per_chat)

C34_ModesAgree ==
    /\ \A u \in Users : HotList(u) = Kept(u)
    /\ ret.op = "get_chat_history" => ret.result = Kept(ret.user)
    /\ ret.op = "is_first_message" => ret.result = (Kept(ret.user) = <<>>)

\* a read of the in-process store after more than max_messages_per_chat
\* appends: the trimmed list that the Redis-backed store returns as well
C34_Witness ==
    /\ ~redis_client
    /\ max_messages_per_chat = 1
    /\ ret.op = "get_chat_history"
    /\ Len(appended[ret.user]) = 2
    /\ ret.result = <<appended[ret.user][2]>>

\* the same read of the Redis-backed store
C34_WitnessRedis ==
    /\ redis_client
    /\ max_messages_per_chat = 1
    /\ ret.op = "get_chat_history"
    /\ Len(appended[ret.user]) = 2
    /\ ret.result = <<appended[ret.user][2]>>

(***************************************************************************)
(* C35: on the ask_gpt path a step writes to a tier only when it returns   *)
(* the answer of a status 200; without API key and on any other status the *)
(* fixed error text is returned and both tiers stay as they were; no tool  *)
(* is ever executed on this path.                                          *)
(***************************************************************************)
C35_RecordedOnlyOn200 ==
    [][\A t \in Tasks :
        LET tk == task[t]
            tk2 == task'[t]
        IN (tk2 # tk /\ tk2.path = "gpt") =>
            /\ tk2.effects = <<>>
            /\ memVars' # memVars =>
                    /\ tk2.pc = "returned" /\ tk2.outcome = "final"
                    /\ tk2.response[1].kind = "ok" /\ tk2.response[1].status = 200
            /\ (tk2.pc = "returned" /\ tk2.outcome = "no_key") =>
                    /\ ~api_key
                    /\ tk2.result = KeyErrorText
                    /\ memVars' = memVars /\ appended' = appended
            /\ (tk2.pc = "returned" /\ tk2.response # <<>> /\ tk2.response[1].kind = "ok"
                    /\ tk2.response[1].status # 200) =>
                    /\ tk2.outcome = "gpt_error"
                    /\ tk2.result = GptErrorText
                    /\ memVars' = memVars /\ appended' = appended
    ]_vars

\* a second turn answered with a status other than 200: the error text is
\* returned and the history is still the first turn's exchange
C35_Witness ==
    \E t \in Tasks :
        LET tk == task[t]
        IN /\ tk.pc = "returned" /\ tk.path = "gpt" /\ tk.outcome = "gpt_error"
           /\ tk.result = GptErrorText
           /\ turns = 2
           /\ Len(tk.messages) = 4
           /\ Len(appended[tk.phone_number]) = 2
           /\ HotForGpt(tk.phone_number) = HistoryPart(tk.messages)

\* without an API key the error text is returned at once
C35_WitnessNoKey ==
    \E t \in Tasks :
        /\ task[t].pc = "returned" /\ task[t].outcome = "no_key"
        /\ task[t].result = KeyErrorText
        /\ db_rows = <<>>

(***************************************************************************)
(* C36: on the direct path the exchange of an answered turn is in the      *)
(* history from the moment the delivery is requested, and the outcome of   *)
(* the delivery changes nothing in it: while the delivery is awaited and   *)
(* after it failed, the history ends with the turn's user and assistant    *)
(* messages, and the sender's next event is not a first contact.           *)
(***************************************************************************)
Answered(h, tk) ==
    /\ h.awaiting = "gpt" /\ h.pc \in {"await_send", "returned"}
    /\ tk.pc = "returned" /\ tk.outcome = "final"

DeliveryFailed(h) ==
    /\ h.pc = "returned" /\ h.awaiting = "gpt"
    /\ h.sends[Len(h.sends)].outcome \in {"error", "raises"}

C36_RecordedBeforeDelivery ==
    [][\A t \in Tasks :
        LET h == webhook'[t]
            tk == task'[t]
            H == GetMessagesForGpt(MemNext, h.from_number, FALSE)
        IN /\ Answered(h, tk) =>
                /\ Len(H) >= 2
                /\ SubSeq(H, Len(H) - 1, Len(H)) = Exchange(tk)
                /\ ~IsFirstMessage(MemNext, h.from_number, FALSE)
           /\ (webhook[t].pc = "await_send" /\ webhook[t].awaiting = "gpt"
                    /\ h.pc = "returned") =>
                /\ memVars' = memVars
                /\ appended' = appended
           /\ (webhook[t].pc = "idle" /\ h.pc # "idle" /\ h.from_number # ""
                    /\ appended[h.from_number] # <<>>) =>
                ~h.is_first
    ]_vars

\* the answer of the model was recorded, its delivery failed, and the
\* history holds the exchange
C36_Witness ==
    \E t \in Tasks :
        /\ Answered(webhook[t], task[t])
        /\ DeliveryFailed(webhook[t])
        /\ HotForGpt(webhook[t].from_number) = Exchange(task[t])
        /\ DurableLog(webhook[t].from_number) = ExchangeRows(task[t])
        /\ ~IsFirstMessage(Mem, webhook[t].from_number, FALSE)

\* the event after it: handled as a later contact
C36_WitnessNextEvent ==
    \E t \in Tasks :
        /\ turns = 2
        /\ webhook[t].pc = "await_send" /\ webhook[t].awaiting = "gpt"
        /\ ~webhook[t].is_first
        /\ task[t].messages # <<>>
        /\ task[t].messages[1].content = SystemPrompt(FALSE)
        /\ Len(appended[webhook[t].from_number]) = 4

(***************************************************************************)
(* C37: the bound on the hot tier for a maximum of 0: with                 *)
(* max_messages_per_chat = 0 no user's stored list ever holds a message.   *)
(***************************************************************************)
C37_ZeroBoundHolds ==
    max_messages_per_chat = 0 => \A u \in Users : Len(HotList(u)) <= 0

\* what the code does with a maximum of 0: the slice [-0:] is the whole
\* list, so nothing is ever cut and, while no call fails, the stored list is
\* every message appended since the list was last emptied
C37_ZeroKeepsEverything ==
    (max_messages_per_chat = 0 /\ faults = 0) =>
        \A u \in Users : HotList(u) = appended[u]

====
